---- MODULE Spec2Model ----
(***************************************************************************)
(* Portfolio analysis engine of the Portfolio-Optimizer repository:        *)
(* the TTL cache, the enrichment fan-out (enrich_holdings / _enrich_one),  *)
(* the widget fan-outs (fetch_sector_momentum, fetch_holdings_news, the    *)
(* gap-opportunity fetch) and analyze_portfolio with its health score.     *)
(* Also parse_portfolio_csv with _normalize_columns,                       *)
(* build_holdings_from_manual, compute_correlation_matrix,                 *)
(* fetch_portfolio_performance, fetch_peer_valuations,                     *)
(* fetch_ethical_analysis and the cached per-entity fetchers.              *)
(*                                                                         *)
(* Conventions.  A Python value that may be None is a sequence of length   *)
(* at most one: None is << >>, the value v is <<v>>.  A float that is not  *)
(* finite is a sequence of length two: NaN is <<0, 0>>, +inf <<1, 0>>.     *)
(* Money is in whole dollars, fund weights and dividend yields in 1/10000, *)
(* percentages rounded to n decimals in 10^-n percent, time in seconds.    *)
(* Arithmetic is exact where Python's is binary floating point.            *)
(***************************************************************************)
EXTENDS Integers, Sequences, FiniteSets, TLC

VARIABLES
    cache,      \* financials/cache.py _cache: key -> entry
    clock,      \* seconds since enrich_holdings was entered
    holdings,   \* the list handed to enrich_holdings (mutated in place)
    pc,         \* position of the thread running enrich_holdings
    futures,    \* symbol -> future of the pool task _enrich_one(symbol)
    results,    \* the local dict results of enrich_holdings
    yielded,    \* futures as_completed has already yielded
    exc,        \* exception in flight in the caller, "" when none
    heap,       \* list objects by identity: id -> list of dicts
    mpc,        \* fetch_sector_momentum: position of each caller
    mref,       \* ... the list object the caller's local "results" names
    mpending,   \* ... sector-ETF tasks of the caller's pool not yet collected
    midx,       \* ... index of the annotation loop (lines 143-144)
    nholdings,  \* fetch_holdings_news: the holdings argument
    newsOf,     \* ... what fetch_recent_news returns for each symbol
    npc,        \* ... position of the calling thread
    npending,   \* ... symbols whose task as_completed has not yielded yet
    allNews,    \* ... the local list all_news
    newsOut,    \* ... the returned list
    aholdings,  \* analyze_portfolio: the holdings argument (sorted in place)
    apc,        \* ... position of the calling thread
    apending,   \* ... gap industries whose task has not been yielded yet
    aopps,      \* ... the local list opportunities
    aexc,       \* ... the exception the call raised, "" when none
    aout,       \* ... the returned dict, None before the return
    pfile,      \* parse_portfolio_csv: the lines of the uploaded file
    ppc,        \* ... "ready" before the call, "returned" or "raised" after
    pexc,       \* ... the exception the call raised, "" when none
    pout,       \* ... the returned list of holdings
    cholds,     \* compute_correlation_matrix: the holdings argument
    cpc,        \* ... position of the calling thread
    cpending,   \* ... symbols whose history task has not been yielded yet
    chistory,   \* ... the local dict history_map: symbol -> closes
    cexc,       \* ... the exception the call raised, "" when none
    cout,       \* ... the returned dict, None before the return
    arg,        \* a single call of a function that runs in one thread: its
                \* argument (mutable arguments are updated in place)
    callpc,     \* ... "ready" before the call, "returned" or "raised" after
    ret,        \* ... the returned value, None before the return
    calls       \* the per-entity fetches made so far, oldest first: what
                \* each found in the cache and whether it called the provider

enrichVars == <<clock, holdings, pc, futures, results, yielded, exc>>
momVars == <<mpc, mref, mpending, midx>>
newsVars == <<nholdings, newsOf, npc, npending, allNews, newsOut>>
anVars == <<aholdings, apc, apending, aopps, aexc, aout>>
parseVars == <<pfile, ppc, pexc, pout>>
corrVars == <<cholds, cpc, cpending, chistory, cexc, cout>>
callVars == <<arg, callpc, ret, calls>>
vars == <<cache, enrichVars, heap, momVars, newsVars, anVars, parseVars, corrVars,
          callVars>>

\* What the steps of one operation leave alone
notEnrich == <<heap, momVars, newsVars, anVars, parseVars, corrVars,
    callVars>>
notMomentum == <<enrichVars, newsVars, anVars, parseVars, corrVars,
    callVars>>
notNews == <<cache, enrichVars, heap, momVars, anVars, parseVars, corrVars,
    callVars>>
notAnalyze == <<cache, enrichVars, heap, momVars, newsVars, parseVars, corrVars,
    callVars>>
notParse == <<cache, enrichVars, heap, momVars, newsVars, anVars, corrVars,
    callVars>>
notCall == <<cache, enrichVars, heap, momVars, newsVars, anVars, parseVars,
    corrVars, calls>>
notFetch == <<enrichVars, heap, momVars, newsVars, anVars, parseVars,
    corrVars, arg, callpc, ret>>
notCorr == <<cache, enrichVars, heap, momVars, newsVars, anVars, parseVars,
    callVars>>

None == << >>
Some(v) == <<v>>
NaN == <<0, 0>>
PosInf == <<1, 0>>
IsNonFinite(x) == Len(x) = 2

----------------------------------------------------------------------------
(* Bounds of the model                                                     *)

MaxHoldings == 2        \* longest holdings list handed to enrich_holdings
TickStep == 15          \* granularity of the modelled wall clock, seconds
MaxClock == 60          \* the clock stops advancing here

Symbols == {"AAA", "BBB"}

----------------------------------------------------------------------------
(* financials/cache.py                                                     *)

EnrichKey(sym) == "portfolio_enrich:" \o sym
MomentumKey == "sector_momentum:all"
EsgKey(sym) == "esg:" \o sym
HistoryKey(sym, period) == "history:" \o sym \o ":" \o period
HistoryPeriod == "1mo"
CacheKeys ==
    {EnrichKey(s) : s \in Symbols} \cup {MomentumKey}
    \cup {EsgKey(s) : s \in Symbols}
    \cup {HistoryKey(s, HistoryPeriod) : s \in Symbols}

\* An entry is None or Some([value, expired]); "expired" stands for
\* time.time() >= entry["expires"].
CacheLive(c, key) == c[key] # None /\ ~c[key][1].expired

\* cache.get: the value when the entry is live, else None
CacheGet(c, key) == IF CacheLive(c, key) THEN Some(c[key][1].value) ELSE None

\* cache.get deletes an entry it finds expired
CacheAfterGet(c, key) ==
    IF c[key] # None /\ c[key][1].expired THEN [c EXCEPT ![key] = None] ELSE c

\* cache.put: a full replacement of the entry
CachePut(c, key, value) ==
    [c EXCEPT ![key] = Some([value |-> value, expired |-> FALSE])]

----------------------------------------------------------------------------
(* financials/portfolio.py: enrichment records                             *)

ENRICHMENT_FALLBACK ==
    [sector |-> "Unknown", sectorKey |-> "", industry |-> "Unknown",
     industryKey |-> "", marketCap |-> None, currentPrice |-> None,
     targetMeanPrice |-> None, nAnalysts |-> None,
     recommendationKey |-> "N/A", sectorWeights |-> None, isFund |-> FALSE,
     dividendYield |-> None, fiveYearAvgDividendYield |-> None,
     exDividendDate |-> None, fiftyTwoWeekHigh |-> None,
     fiftyTwoWeekLow |-> None, beta |-> None, trailingPE |-> None]

\* What yf.Ticker(symbol).info can hold: every field is optional.
StockInfo ==
    [sector |-> Some("Technology"), sectorKey |-> Some("technology"),
     industry |-> Some("Semiconductors"), industryKey |-> Some("semiconductors"),
     marketCap |-> Some(900), currentPrice |-> Some(100),
     regularMarketPrice |-> None, targetMeanPrice |-> Some(120),
     numberOfAnalystOpinions |-> Some(10), recommendationKey |-> Some("buy"),
     dividendYield |-> Some(200), fiveYearAvgDividendYield |-> None,
     exDividendDate |-> None, fiftyTwoWeekHigh |-> Some(130),
     fiftyTwoWeekLow |-> Some(80), beta |-> Some(1), trailingPE |-> Some(25)]

FundInfo ==
    [sector |-> None, sectorKey |-> None, industry |-> None,
     industryKey |-> None, marketCap |-> None, currentPrice |-> None,
     regularMarketPrice |-> Some(50), targetMeanPrice |-> None,
     numberOfAnalystOpinions |-> None, recommendationKey |-> None,
     dividendYield |-> Some(100), fiveYearAvgDividendYield |-> None,
     exDividendDate |-> None, fiftyTwoWeekHigh |-> Some(60),
     fiftyTwoWeekLow |-> Some(40), beta |-> None, trailingPE |-> None]

\* funds_data.sector_weightings: a dict, i.e. keys in insertion order with
\* their weights in 1/10000 (round(float(v), 4))
FundWeightsRaw == <<[k |-> "technology", w |-> 6000],
                    [k |-> "realestate", w |-> 4000]>>

\* Python "a or b" on optional strings / optional numbers
OrStr(a, b) == IF a = None \/ a = Some("") THEN b ELSE a
OrNum(a, b) == IF a = None \/ a = Some(0) THEN b ELSE a

\* _SECTOR_KEY_MAP.get(k, k.replace("_", " ").title())
SECTOR_KEY_MAP(k) ==
    CASE k = "technology" -> "Technology"
      [] k = "financial_services" -> "Financial Services"
      [] k = "healthcare" -> "Healthcare"
      [] k = "realestate" -> "Real Estate"
      [] k = "utilities" -> "Utilities"
      [] OTHER -> k

\* lines 504-507.  k.replace("_", " ").title() is only reached for keys
\* outside the map; the provider keys modelled here are all mapped, to
\* different labels.
NormalizeWeights(sw) ==
    [i \in DOMAIN sw |-> [k |-> SECTOR_KEY_MAP(sw[i].k), w |-> sw[i].w]]

\* Outcomes of the provider for one _enrich_one call.  info is the dict
\* ticker.info; funds is what ticker.funds_data.sector_weightings does:
\* "raise", "empty" ({} or None) or "weights".
ProviderOutcomes == {"error", "stock", "fund", "fund_empty", "fund_raise"}

ProviderInfo(p) == IF p = "stock" THEN StockInfo ELSE FundInfo
ProviderFunds(p) ==
    CASE p = "fund" -> "weights" [] p = "fund_empty" -> "empty"
      [] OTHER -> "raise"

\* The dict _enrich_one builds from info (lines 476-496) and the fund
\* look-through (lines 499-512).
EnrichmentOf(info, funds) ==
    LET sector == OrStr(info.sector, Some(""))[1]
        base ==
          [sector |-> IF sector # "" THEN sector ELSE "Unknown",
           sectorKey |-> OrStr(info.sectorKey, Some(""))[1],
           industry |-> OrStr(info.industry, Some("Unknown"))[1],
           industryKey |-> OrStr(info.industryKey, Some(""))[1],
           marketCap |-> info.marketCap,
           currentPrice |-> OrNum(info.currentPrice, info.regularMarketPrice),
           targetMeanPrice |-> info.targetMeanPrice,
           nAnalysts |-> info.numberOfAnalystOpinions,
           recommendationKey |-> OrStr(info.recommendationKey, Some("N/A"))[1],
           sectorWeights |-> None, isFund |-> FALSE,
           dividendYield |-> info.dividendYield,
           fiveYearAvgDividendYield |-> info.fiveYearAvgDividendYield,
           exDividendDate |-> info.exDividendDate,
           fiftyTwoWeekHigh |-> info.fiftyTwoWeekHigh,
           fiftyTwoWeekLow |-> info.fiftyTwoWeekLow,
           beta |-> info.beta, trailingPE |-> info.trailingPE]
    IN  IF sector = "" /\ funds = "weights"
        THEN [base EXCEPT !.sectorWeights = Some(NormalizeWeights(FundWeightsRaw)),
                          !.isFund = TRUE, !.sector = "Fund/ETF"]
        ELSE base

\* A fund record that keeps the sector it had before the look-through
EnrichOneResultUnlabelled(p) ==
    IF p = "error" THEN ENRICHMENT_FALLBACK
    ELSE LET r == EnrichmentOf(ProviderInfo(p), ProviderFunds(p))
         IN  [r EXCEPT !.sector = IF r.isFund THEN "Unknown" ELSE @]

\* What _enrich_one returns when the cache missed and the provider did p:
\* the except clause of line 516 turns a provider error into the fallback.
EnrichOneResult(p) ==
    IF p = "error" THEN ENRICHMENT_FALLBACK
    ELSE EnrichmentOf(ProviderInfo(p), ProviderFunds(p))

\* _enrich_one puts its record in the cache only on the success path (514)
EnrichOneCaches(p) == p # "error"

----------------------------------------------------------------------------
(* financials/portfolio.py: enrich_holdings                                *)

MAX_WORKERS == 8         \* ThreadPoolExecutor(max_workers=8)
BATCH_TIMEOUT == 45      \* as_completed(futures, timeout=45)
TASK_TIMEOUT == 15       \* future.result(timeout=15)

NoFuture == [state |-> "none", prov |-> "none", startedAt |-> 0,
             finishedAt |-> 0, value |-> None]

\* A holding before enrichment carries no enrichment fields: enr = None.
HoldingLists ==
    UNION {[1..n -> [symbol : Symbols, enr : {None}]] : n \in 1..MaxHoldings}

\* symbols = list({h["symbol"] for h in holdings})
SymbolsOf(hs) == {hs[i].symbol : i \in DOMAIN hs}

Running == {s \in Symbols : futures[s].state = "running"}
Pending == {s \in Symbols : futures[s].state = "pending"}
Submitted == {s \in Symbols : futures[s].state # "none"}

\* A result() that enforced the per-task timeout on the task's running time
FutureResultTimed(f, timeout) ==
    IF f.state = "done" /\ f.finishedAt - f.startedAt <= timeout
    THEN [raised |-> FALSE, value |-> f.value]
    ELSE [raised |-> TRUE, value |-> None]

\* future.result(timeout): a finished future hands over its value at once;
\* only a future that is not finished can run into the timeout.
FutureResult(f, timeout) ==
    IF f.state = "done" THEN [raised |-> FALSE, value |-> f.value]
    ELSE [raised |-> TRUE, value |-> None]

\* lines 534-537: results[sym] = future.result(timeout=15), or the fallback
\* when result() raises
LoopBody(res, sym, f) ==
    LET r == FutureResult(f, TASK_TIMEOUT)
    IN  [s \in (DOMAIN res) \cup {sym} |->
            IF s = sym
            THEN (IF r.raised THEN ENRICHMENT_FALLBACK ELSE r.value[1])
            ELSE res[s]]

\* lines 539-541: symbols that are not in results get the fallback
FillMissing(res, syms) ==
    [s \in syms \cup DOMAIN res |->
        IF s \in DOMAIN res THEN res[s] ELSE ENRICHMENT_FALLBACK]

\* lines 544-545: h.update(results.get(h["symbol"], _ENRICHMENT_FALLBACK))
ApplyResults(hs, res) ==
    [i \in DOMAIN hs |->
        [hs[i] EXCEPT !.enr =
            Some(IF hs[i].symbol \in DOMAIN res THEN res[hs[i].symbol]
                 ELSE ENRICHMENT_FALLBACK)]]

EmptyResults == [s \in {} |-> ENRICHMENT_FALLBACK]

InitEnrich ==
    /\ clock = 0
    /\ holdings \in HoldingLists
    /\ pc = "idle"
    /\ futures = [s \in Symbols |-> NoFuture]
    /\ results = EmptyResults
    /\ yielded = {}
    /\ exc = ""

\* lines 527-531: one task per unique symbol is submitted to the pool, and
\* as_completed starts its 45 s countdown
Submit ==
    /\ pc = "idle"
    /\ pc' = "loop"
    /\ clock' = 0
    /\ futures' = [s \in Symbols |->
                     IF s \in SymbolsOf(holdings)
                     THEN [NoFuture EXCEPT !.state = "pending"] ELSE NoFuture]
    /\ results' = EmptyResults
    /\ yielded' = {}
    /\ exc' = ""
    /\ UNCHANGED <<cache, holdings>>
    /\ UNCHANGED notEnrich

\* A free worker takes a queued task: _enrich_one reads the cache (469-471)
\* and returns the cached record, or goes on to call the provider.
TaskStart(s) ==
    /\ futures[s].state = "pending"
    /\ Cardinality(Running) < MAX_WORKERS
    /\ LET key == EnrichKey(s)
           hit == CacheGet(cache, key)
       IN  /\ cache' = CacheAfterGet(cache, key)
           /\ IF hit # None
              THEN futures' = [futures EXCEPT ![s] =
                       [state |-> "done", prov |-> "cached", startedAt |-> clock,
                        finishedAt |-> clock, value |-> hit]]
              ELSE \E p \in ProviderOutcomes \cup {"hang"} :
                      futures' = [futures EXCEPT ![s] =
                          [state |-> "running", prov |-> p, startedAt |-> clock,
                           finishedAt |-> 0, value |-> None]]
    /\ UNCHANGED <<clock, holdings, pc, results, yielded, exc>>
    /\ UNCHANGED notEnrich

\* The provider call of a running task returns or raises (473-517); a
\* task whose provider call hangs never gets here.
TaskFinish(s) ==
    /\ futures[s].state = "running"
    /\ futures[s].prov # "hang"
    /\ LET p == futures[s].prov
           rec == EnrichOneResult(p)
       IN  /\ futures' = [futures EXCEPT ![s] =
                  [@ EXCEPT !.state = "done", !.finishedAt = clock,
                            !.value = Some(rec)]]
           /\ cache' = IF EnrichOneCaches(p)
                       THEN CachePut(cache, EnrichKey(s), rec) ELSE cache
    /\ UNCHANGED <<clock, holdings, pc, results, yielded, exc>>
    /\ UNCHANGED notEnrich

\* as_completed yields a finished future and the loop body stores its result.
\* It looks for finished futures only after finding that its deadline has
\* not passed (wait_timeout >= 0).
Yield(s) ==
    /\ pc = "loop"
    /\ clock <= BATCH_TIMEOUT
    /\ s \in Submitted \ yielded
    /\ futures[s].state = "done"
    /\ results' = LoopBody(results, s, futures[s])
    /\ yielded' = yielded \cup {s}
    /\ UNCHANGED <<cache, clock, holdings, pc, futures, exc>>
    /\ UNCHANGED notEnrich

\* as_completed has yielded every future: the for loop ends and the with
\* block is left
LoopEnd ==
    /\ pc = "loop"
    /\ yielded = Submitted
    /\ pc' = "shutdown"
    /\ UNCHANGED <<cache, clock, holdings, futures, results, yielded, exc>>
    /\ UNCHANGED notEnrich

\* as_completed finds its deadline passed with futures still pending and
\* raises TimeoutError out of the for statement
BatchTimeout ==
    /\ pc = "loop"
    /\ yielded # Submitted
    /\ clock > BATCH_TIMEOUT
    /\ exc' = "TimeoutError"
    /\ pc' = "shutdown"
    /\ UNCHANGED <<cache, clock, holdings, futures, results, yielded>>
    /\ UNCHANGED notEnrich

\* ThreadPoolExecutor.__exit__ is shutdown(wait=True): it returns when
\* every submitted task has ended, then the exception in flight (if any)
\* goes on to the caller
PoolShutdown ==
    /\ pc = "shutdown"
    /\ \A s \in Submitted : futures[s].state = "done"
    /\ pc' = IF exc # "" THEN "raised" ELSE "fill"
    /\ UNCHANGED <<cache, clock, holdings, futures, results, yielded, exc>>
    /\ UNCHANGED notEnrich

\* lines 538-547
FillAndApply ==
    /\ pc = "fill"
    /\ results' = FillMissing(results, SymbolsOf(holdings))
    /\ holdings' = ApplyResults(holdings, results')
    /\ pc' = "returned"
    /\ UNCHANGED <<cache, clock, futures, yielded, exc>>
    /\ UNCHANGED notEnrich

\* Wall-clock time passes.  Workers take queued tasks without delay, and
\* the completion of a future wakes the thread waiting in as_completed.
Tick ==
    /\ pc \in {"loop", "shutdown"}
    /\ clock < MaxClock
    /\ ~(Pending # {} /\ Cardinality(Running) < MAX_WORKERS)
    /\ ~(pc = "loop" /\ ENABLED (\E s \in Symbols : Yield(s)))
    /\ clock' = clock + TickStep
    /\ UNCHANGED <<cache, holdings, pc, futures, results, yielded, exc>>
    /\ UNCHANGED notEnrich

\* Time between and during requests lets a cache entry outlive its TTL
CacheExpire(k) ==
    /\ CacheLive(cache, k)
    /\ cache' = [cache EXCEPT ![k] = Some([@[1] EXCEPT !.expired = TRUE])]
    /\ UNCHANGED <<enrichVars, heap, momVars, newsVars, anVars, parseVars,
                   corrVars, callVars>>

\* The request is over; the next one brings its own holdings
NextRequest ==
    /\ pc \in {"returned", "raised"}
    /\ pc' = "idle"
    /\ holdings' \in HoldingLists
    /\ clock' = 0
    /\ futures' = [s \in Symbols |-> NoFuture]
    /\ results' = EmptyResults
    /\ yielded' = {}
    /\ exc' = ""
    /\ UNCHANGED cache
    /\ UNCHANGED notEnrich

CallerStep == Submit \/ (\E s \in Symbols : Yield(s)) \/ LoopEnd
              \/ BatchTimeout \/ PoolShutdown \/ FillAndApply

NextEnrich ==
    \/ Submit
    \/ \E s \in Symbols : TaskStart(s)
    \/ \E s \in Symbols : TaskFinish(s)
    \/ \E s \in Symbols : Yield(s)
    \/ LoopEnd
    \/ BatchTimeout
    \/ PoolShutdown
    \/ FillAndApply
    \/ Tick
    \/ \E k \in CacheKeys : CacheExpire(k)
    \/ NextRequest

----------------------------------------------------------------------------
(* Sorting as list.sort / sorted do it: stable, by an integer key          *)

\* Python list.sort(key=Key): elements with equal keys keep their order
SortedBy(seq, Key(_)) ==
    LET n == Len(seq)
        pos(i) == 1 + Cardinality({j \in 1..n :
                          \/ Key(seq[j]) < Key(seq[i])
                          \/ (Key(seq[j]) = Key(seq[i]) /\ j < i)})
    IN  [p \in 1..n |-> seq[CHOOSE i \in 1..n : pos(i) = p]]

\* Python list.sort(key=Key, reverse=True): descending, and still stable
SortedByReverse(seq, Key(_)) ==
    LET n == Len(seq)
        pos(i) == 1 + Cardinality({j \in 1..n :
                          \/ Key(seq[j]) > Key(seq[i])
                          \/ (Key(seq[j]) = Key(seq[i]) /\ j < i)})
    IN  [p \in 1..n |-> seq[CHOOSE i \in 1..n : pos(i) = p]]

----------------------------------------------------------------------------
(* financials/portfolio_widgets.py: fetch_sector_momentum                  *)

Callers == {"A", "B"}

\* The sector ETFs of SECTOR_ETFS the model follows, with their sectors
SectorEtfs == {"XLK", "XLE"}
SECTOR_ETFS(etf) == IF etf = "XLK" THEN "Technology" ELSE "Energy"

\* Python's string order on the sector names used
SectorRank(sector) == IF sector = "Energy" THEN 1 ELSE 2

\* The portfolio_sectors argument of each caller, in tenths of a percent
PortfolioSectors(c) ==
    IF c = "A" THEN [x \in {"Technology"} |-> 352]
    ELSE [x \in {"Technology", "Energy"} |-> IF x = "Technology" THEN 121 ELSE 50]

\* portfolio_sectors.get(sector, 0)
SectorsGet(ps, sector) == IF sector \in DOMAIN ps THEN ps[sector] ELSE 0

\* The dict _fetch_etf_returns returns (lines 99-106); the price and the
\* three return figures are fixed by the ETF's history and ride along in
\* "etf".  The key portfolioWeight is absent (None) until line 144 sets it.
EtfReturns(etf) ==
    [etf |-> etf, sector |-> SECTOR_ETFS(etf), portfolioWeight |-> None]

ObjIds == 1..(Cardinality(Callers) + 1)
UsedIds == {mref[c] : c \in Callers} \cup
           {IF cache[MomentumKey] = None THEN 0 ELSE cache[MomentumKey][1].value}
\* A fresh list object: an identity nothing refers to
FreshId == CHOOSE i \in ObjIds : i \notin UsedIds

\* Python frees a list no name and no cache entry refers to any more
RefOf(c) == IF c[MomentumKey] = None THEN 0 ELSE c[MomentumKey][1].value
Reclaim(h, c, refs) ==
    [i \in ObjIds |->
        IF i = RefOf(c) \/ (\E x \in Callers : refs[x] = i) THEN h[i] ELSE << >>]

InitMomentumVars ==
    /\ heap = [i \in ObjIds |-> << >>]
    /\ mpc = [c \in Callers |-> "idle"]
    /\ mref = [c \in Callers |-> 0]
    /\ mpending = [c \in Callers |-> {}]
    /\ midx = [c \in Callers |-> 0]

\* lines 121-129: the cache is read; on a hit "results" names the cached
\* list itself, on a miss a new empty list, and the ETF tasks are submitted
MomentumGet(c) ==
    /\ mpc[c] = "idle"
    /\ LET hit == CacheGet(cache, MomentumKey)
       IN  /\ cache' = CacheAfterGet(cache, MomentumKey)
           /\ IF hit # None
              THEN /\ mref' = [mref EXCEPT ![c] = hit[1]]
                   /\ mpc' = [mpc EXCEPT ![c] = "annotate"]
                   /\ midx' = [midx EXCEPT ![c] = 1]
                   /\ UNCHANGED <<heap, mpending>>
              ELSE /\ mref' = [mref EXCEPT ![c] = FreshId]
                   /\ heap' = Reclaim([heap EXCEPT ![FreshId] = << >>],
                                      cache', mref')
                   /\ mpending' = [mpending EXCEPT ![c] = SectorEtfs]
                   /\ mpc' = [mpc EXCEPT ![c] = "collect"]
                   /\ UNCHANGED midx
    /\ UNCHANGED notMomentum

\* lines 130-136: as_completed yields the task of one ETF; its dict is
\* appended unless _fetch_etf_returns gave None
MomentumCollect(c, etf, ok) ==
    /\ mpc[c] = "collect"
    /\ etf \in mpending[c]
    /\ mpending' = [mpending EXCEPT ![c] = @ \ {etf}]
    /\ heap' = IF ok THEN [heap EXCEPT ![mref[c]] = Append(@, EtfReturns(etf))]
               ELSE heap
    /\ UNCHANGED <<cache, mpc, mref, midx, notMomentum>>

\* line 130: the 30 s deadline of as_completed passes with tasks pending
\* and TimeoutError leaves fetch_sector_momentum
MomentumTimeout(c) ==
    /\ mpc[c] = "collect"
    /\ mpending[c] # {}
    /\ mpc' = [mpc EXCEPT ![c] = "raised"]
    /\ mpending' = [mpending EXCEPT ![c] = {}]
    /\ UNCHANGED <<cache, heap, mref, midx, notMomentum>>

SectorKeyOf(r) == SectorRank(r.sector)

\* lines 137-139: the list is sorted in place and handed to the cache
MomentumSortPut(c) ==
    /\ mpc[c] = "collect"
    /\ mpending[c] = {}
    /\ cache' = CachePut(cache, MomentumKey, mref[c])
    /\ heap' = Reclaim([heap EXCEPT ![mref[c]] = SortedBy(@, SectorKeyOf)],
                       cache', mref)
    /\ mpc' = [mpc EXCEPT ![c] = "annotate"]
    /\ midx' = [midx EXCEPT ![c] = 1]
    /\ UNCHANGED <<mref, mpending, notMomentum>>

\* lines 142-144: one round of the annotation loop writes the caller's
\* weight into the next dict of the list
MomentumAnnotate(c) ==
    /\ mpc[c] = "annotate"
    /\ midx[c] <= Len(heap[mref[c]])
    /\ heap' = [heap EXCEPT ![mref[c]][midx[c]].portfolioWeight =
                  Some(SectorsGet(PortfolioSectors(c), heap[mref[c]][midx[c]].sector))]
    /\ midx' = [midx EXCEPT ![c] = @ + 1]
    /\ UNCHANGED <<cache, mpc, mref, mpending, notMomentum>>

\* line 146: return results
MomentumReturn(c) ==
    /\ mpc[c] = "annotate"
    /\ midx[c] > Len(heap[mref[c]])
    /\ mpc' = [mpc EXCEPT ![c] = "returned"]
    /\ UNCHANGED <<cache, heap, mref, mpending, midx, notMomentum>>

\* The caller is done with the list it was given and may call again
MomentumDrop(c) ==
    /\ mpc[c] \in {"returned", "raised"}
    /\ mpc' = [mpc EXCEPT ![c] = "idle"]
    /\ mref' = [mref EXCEPT ![c] = 0]
    /\ midx' = [midx EXCEPT ![c] = 0]
    /\ heap' = Reclaim(heap, cache, mref')
    /\ UNCHANGED <<cache, mpending, notMomentum>>

NextMomentum ==
    \/ \E c \in Callers : MomentumGet(c)
    \/ \E c \in Callers, etf \in SectorEtfs, ok \in BOOLEAN : MomentumCollect(c, etf, ok)
    \/ \E c \in Callers : MomentumTimeout(c)
    \/ \E c \in Callers : MomentumSortPut(c)
    \/ \E c \in Callers : MomentumAnnotate(c)
    \/ \E c \in Callers : MomentumReturn(c)
    \/ \E c \in Callers : MomentumDrop(c)
    \/ CacheExpire(MomentumKey)

----------------------------------------------------------------------------
(* financials/portfolio_widgets.py: fetch_holdings_news                    *)

MAX_STOCKS == 8          \* max_stocks: int = 8
MAX_PER_STOCK == 3       \* max_per_stock: int = 3
MAX_TOTAL == 20          \* max_total: int = 20

\* Formatted dates ("%b %d, %Y") of the headlines, and Python's string
\* order on them; "" is the date of a headline without a timestamp
NewsDates == {"", "Nov 04, 2026", "Nov 05, 2026"}
DateRank(d) == CASE d = "" -> 0 [] d = "Nov 04, 2026" -> 1 [] OTHER -> 2

\* A headline as fetch_recent_news builds it (data.py line 118)
Headline(d) == [title |-> "t", publisher |-> "p", date |-> d, symbol |-> ""]

\* The lists fetch_recent_news can return for a symbol: [] (also on a
\* provider error), or headlines newest first
NewsLists ==
    {<< >>} \cup {<<Headline(d)>> : d \in NewsDates}
            \cup {<<Headline("Nov 05, 2026"), Headline("Nov 04, 2026")>>}

\* Holdings lists with distinct symbols, funds and stocks
NewsHoldingLists ==
    {hs \in UNION {[1..n -> [symbol : Symbols, isFund : BOOLEAN]] :
                      n \in 1..MaxHoldings} :
        \A i, j \in DOMAIN hs : i # j => hs[i].symbol # hs[j].symbol}

Min(a, b) == IF a <= b THEN a ELSE b

RECURSIVE TopSymbolsFrom(_, _)
\* lines 238-243: the non-fund symbols among the first max_stocks holdings
TopSymbolsFrom(hs, acc) ==
    IF hs = << >> \/ Len(acc) >= MAX_STOCKS THEN acc
    ELSE TopSymbolsFrom(Tail(hs),
            IF ~Head(hs).isFund THEN Append(acc, Head(hs).symbol) ELSE acc)

TopSymbols(hs) == TopSymbolsFrom(SubSeq(hs, 1, Min(Len(hs), MAX_STOCKS)), << >>)

\* lines 252-255: the first max_per_stock items, each tagged with sym
Tagged(items, sym) ==
    [i \in 1..Min(Len(items), MAX_PER_STOCK) |-> [items[i] EXCEPT !.symbol = sym]]

DateKey(x) == DateRank(x.date)

\* lines 259-261: sort by date string, newest first, and cut to max_total
NewsFinal(all) ==
    LET sorted == SortedByReverse(all, DateKey)
    IN  SubSeq(sorted, 1, Min(Len(sorted), MAX_TOTAL))

SeqToSet(q) == {q[i] : i \in DOMAIN q}

InitNewsVars ==
    /\ nholdings = << >>
    /\ newsOf = [s \in Symbols |-> << >>]
    /\ npc = "off"
    /\ npending = {}
    /\ allNews = << >>
    /\ newsOut = << >>

\* lines 238-248: the top symbols are chosen and one task each is submitted
NewsSubmit ==
    /\ npc = "idle"
    /\ npending' = SeqToSet(TopSymbols(nholdings))
    /\ allNews' = << >>
    /\ npc' = "collect"
    /\ UNCHANGED <<nholdings, newsOf, newsOut, notNews>>

\* lines 249-257: as_completed yields the task of sym, in the order the
\* tasks complete; its items are tagged and appended
NewsCollect(sym) ==
    /\ npc = "collect"
    /\ sym \in npending
    /\ npending' = npending \ {sym}
    /\ allNews' = allNews \o Tagged(newsOf[sym], sym)
    /\ UNCHANGED <<nholdings, newsOf, npc, newsOut, notNews>>

\* line 249: the 20 s deadline of as_completed passes with tasks pending
NewsTimeout ==
    /\ npc = "collect"
    /\ npending # {}
    /\ npc' = "raised"
    /\ UNCHANGED <<nholdings, newsOf, npending, allNews, newsOut, notNews>>

\* lines 259-261
NewsReturn ==
    /\ npc = "collect"
    /\ npending = {}
    /\ newsOut' = NewsFinal(allNews)
    /\ npc' = "returned"
    /\ UNCHANGED <<nholdings, newsOf, npending, allNews, notNews>>

NextNews ==
    \/ NewsSubmit
    \/ \E sym \in Symbols : NewsCollect(sym)
    \/ NewsTimeout
    \/ NewsReturn

----------------------------------------------------------------------------
(* Numbers                                                                 *)

\* Python round(): the nearest integer to num/den (den > 0), ties to even
RoundHalfEven(num, den) ==
    LET q == num \div den
        r == num % den
    IN  IF 2 * r < den THEN q
        ELSE IF 2 * r > den THEN q + 1
        ELSE IF q % 2 = 0 THEN q ELSE q + 1

RECURSIVE SumSeq(_)
SumSeq(q) == IF q = << >> THEN 0 ELSE Head(q) + SumSeq(Tail(q))

Max(a, b) == IF a >= b THEN a ELSE b

\* Exact fractions n/d with d > 0, for the float expressions of the scores
RECURSIVE Gcd(_, _)
Gcd(a, b) == IF b = 0 THEN a ELSE Gcd(b, a % b)

\* ... kept in lowest terms
Rat(n, d) ==
    LET g == Gcd(IF n < 0 THEN -n ELSE n, d)
    IN  [n |-> n \div g, d |-> d \div g]
RatAdd(a, b) == Rat(a.n * b.d + b.n * a.d, a.d * b.d)
RatLess(a, b) == a.n * b.d < b.n * a.d
\* Python min(a, b) / max(a, b): the first argument unless the second is
\* strictly smaller / larger
RatMin(a, b) == IF RatLess(b, a) THEN b ELSE a
RatMax(a, b) == IF RatLess(a, b) THEN b ELSE a
RatRound(a) == RoundHalfEven(a.n, a.d)

\* Python truth of an optional number, and "x or 0"
Truthy(x) == x # None /\ x # Some(0)
OrZero(x) == IF Truthy(x) THEN x[1] ELSE 0

----------------------------------------------------------------------------
(* financials/portfolio_widgets.py: compute_analyst_overview               *)

\* (h.get("recommendationKey") or "").lower().replace(" ", "_") on the keys
\* the provider gives
RecNorm(r) == IF r = "N/A" THEN "n/a" ELSE r

\* lines 165-168: holdings without analysts or recommendation are skipped
Covered(h) ==
    ~(OrZero(h.enr.nAnalysts) = 0 \/ RecNorm(h.enr.recommendationKey) \in {"n/a", ""})

\* lines 179-183: implied upside in tenths of a percent, None when unknown
UpsidePct(h) ==
    LET target == h.enr.targetMeanPrice
        current == OrNum(h.enr.currentPrice, h.lastPrice)
    IN  IF Truthy(target) /\ Truthy(current) /\ OrZero(current) > 0
        THEN Some(RoundHalfEven((target[1] - current[1]) * 1000, current[1]))
        ELSE None

\* lines 185-195
UpsideEntry(h) ==
    [symbol |-> h.symbol, name |-> h.name,
     recommendationKey |-> h.enr.recommendationKey,
     nAnalysts |-> OrZero(h.enr.nAnalysts),
     targetMeanPrice |-> h.enr.targetMeanPrice,
     currentPrice |-> OrNum(h.enr.currentPrice, h.lastPrice),
     upsidePct |-> UpsidePct(h), currentValue |-> h.currentValue,
     pctOfAccount |-> h.pctOfAccount]

HasUpside(d) == d.upsidePct # None
UpsideKey(d) == d.upsidePct[1]

ComputeAnalystOverview(hs) ==
    LET covered == SelectSeq(hs, Covered)
        recs == [i \in DOMAIN covered |-> RecNorm(covered[i].enr.recommendationKey)]
        count(S) == Cardinality({i \in DOMAIN recs : recs[i] \in S})
        upsideData == [i \in DOMAIN covered |-> UpsideEntry(covered[i])]
        withUpside == SelectSeq(upsideData, HasUpside)
        totalValue == SumSeq([i \in DOMAIN withUpside |-> withUpside[i].currentValue])
        weighted == SumSeq([i \in DOMAIN withUpside |->
                        withUpside[i].upsidePct[1] * withUpside[i].currentValue])
    IN  [buys |-> count({"buy", "strong_buy"}),
         holds |-> count({"hold"}),
         sells |-> count({"sell", "underperform", "strong_sell"}),
         totalCovered |-> Len(covered),
         totalHoldings |-> Len(hs),
         coverageRatio |-> IF Len(hs) > 0
                           THEN RoundHalfEven(Len(covered) * 100, Len(hs)) ELSE 0,
         weightedUpside |-> IF totalValue > 0
                            THEN Some(RoundHalfEven(weighted, totalValue)) ELSE None,
         holdingsByUpside |-> SortedByReverse(withUpside, UpsideKey)]

----------------------------------------------------------------------------
(* financials/portfolio.py: _compute_health_score                          *)

\* min(weighted_upside, 20): comparing None with an int raises TypeError
HealthRaises(ao) == ao.weightedUpside = None

\* line 565: buy_ratio * 15 + min(weighted_upside, 20) / 20 * 10, capped at
\* 25 from above
SentimentScore(buyRatio, upside10) ==
    RatMin(RatAdd(Rat(buyRatio.n * 15, buyRatio.d),
                  Rat(RatMin(Rat(upside10, 10), Rat(20, 1)).n * 10,
                      RatMin(Rat(upside10, 10), Rat(20, 1)).d * 20)),
           Rat(25, 1))

\* lines 568-574
CostScore(hs) ==
    LET totalVal == SumSeq([i \in DOMAIN hs |-> hs[i].currentValue])
        totalCost == SumSeq([i \in DOMAIN hs |-> OrZero(hs[i].costBasis)])
    IN  IF totalCost > 0
        THEN RatMin(RatMax(Rat(25 * (5 * totalVal - 4 * totalCost), 3 * totalCost),
                           Rat(0, 1)),
                    Rat(25, 1))
        ELSE Rat(25, 2)

\* lines 552-583, for an analyst overview with a weighted upside
ComputeHealthScore(hs, bySector, concentration, ao) ==
    LET nSectors == Cardinality({i \in DOMAIN bySector :
                                    bySector[i].sector # "Unknown"})
        divScore == RatMin(Rat(nSectors * 25, 8), Rat(25, 1))
        concScore == Max(25 - Len(concentration) * 8, 0)
        buyRatio == IF ao.totalCovered > 0 THEN Rat(ao.buys, ao.totalCovered)
                    ELSE Rat(1, 2)
        sentimentScore == SentimentScore(buyRatio, ao.weightedUpside[1])
        costScore == CostScore(hs)
        total == RatRound(RatAdd(RatAdd(divScore, Rat(concScore, 1)),
                                 RatAdd(sentimentScore, costScore)))
    IN  [total |-> Min(total, 100),
         diversification |-> RatRound(divScore),
         concentration |-> concScore,
         sentiment |-> RatRound(sentimentScore),
         costHealth |-> RatRound(costScore)]

----------------------------------------------------------------------------
(* financials/portfolio.py: analyze_portfolio                              *)

CurrentValueKey(h) == h.currentValue

\* sector_map[sec]: created on first use, then added to (a dict keeps its
\* keys in insertion order).  Sector values are in 1/10000 dollar.
AddSector(map, sec, amount, cnt) ==
    IF \E i \in DOMAIN map : map[i].sector = sec
    THEN [i \in DOMAIN map |->
            IF map[i].sector = sec
            THEN [map[i] EXCEPT !.value = @ + amount, !.count = @ + cnt]
            ELSE map[i]]
    ELSE Append(map, [sector |-> sec, value |-> amount, count |-> cnt])

\* the whole value instead of the weighted share
FundShareFull(val, w) == val * 10000

\* line 611: val * weight, the weight in 1/10000
FundShare(val, w) == val * w

RECURSIVE SpreadFund(_, _, _)
\* lines 609-612: the fund's value goes to each sector by its weight
SpreadFund(map, weights, val) ==
    IF weights = << >> THEN map
    ELSE SpreadFund(AddSector(map, Head(weights).k,
                              FundShare(val, Head(weights).w), 0),
                    Tail(weights), val)

\* max(weights, key=weights.get): the first key of the largest weight
TopSector(weights) ==
    weights[CHOOSE i \in DOMAIN weights :
              /\ \A j \in DOMAIN weights : weights[j].w <= weights[i].w
              /\ \A j \in 1..(i - 1) : weights[j].w < weights[i].w].k

IsLookThrough(h) == h.enr.sectorWeights # None /\ h.enr.sectorWeights # Some(<< >>)

RECURSIVE SectorMap(_, _)
\* lines 603-623
SectorMap(hs, map) ==
    IF hs = << >> THEN map
    ELSE LET h == Head(hs)
             sec == IF h.enr.sector \in {"", "Fund/ETF"} THEN "Unknown"
                    ELSE h.enr.sector
         IN  SectorMap(Tail(hs),
                IF IsLookThrough(h)
                THEN AddSector(SpreadFund(map, h.enr.sectorWeights[1], h.currentValue),
                               TopSector(h.enr.sectorWeights[1]), 0, 1)
                ELSE AddSector(map, sec, h.currentValue * 10000, 1))

SectorValueKey(x) == x.value

\* lines 624-626: sorted by value, each with its share in tenths of a percent
BySector(hs, totalValue) ==
    LET sorted == SortedByReverse(SectorMap(hs, << >>), SectorValueKey)
    IN  [i \in DOMAIN sorted |->
            [sector |-> sorted[i].sector, value |-> sorted[i].value,
             count |-> sorted[i].count,
             pct |-> IF totalValue > 0
                     THEN RoundHalfEven(sorted[i].value, totalValue * 10) ELSE 0]]

IsFundHolding(h) == h.enr.isFund \/ IsLookThrough(h)

RECURSIVE IndustryMap(_, _)
\* lines 630-649
IndustryMap(hs, map) ==
    IF hs = << >> THEN map
    ELSE LET h == Head(hs)
             fund == IsFundHolding(h)
             ind == IF fund THEN "Fund/ETF (look-through in sector view)"
                    ELSE IF h.enr.industry = "" THEN "Unknown" ELSE h.enr.industry
             entry == [industry |-> ind,
                       industryKey |-> IF fund THEN "" ELSE h.enr.industryKey,
                       sector |-> IF fund THEN "Fund/ETF"
                                  ELSE IF h.enr.sector = "" THEN "Unknown"
                                  ELSE h.enr.sector,
                       value |-> h.currentValue, count |-> 1]
         IN  IndustryMap(Tail(hs),
                IF \E i \in DOMAIN map : map[i].industry = ind
                THEN [i \in DOMAIN map |->
                        IF map[i].industry = ind
                        THEN [map[i] EXCEPT !.value = @ + h.currentValue,
                                            !.count = @ + 1]
                        ELSE map[i]]
                ELSE Append(map, entry))

\* lines 650-652
ByIndustry(hs, totalValue) ==
    LET sorted == SortedByReverse(IndustryMap(hs, << >>), SectorValueKey)
    IN  [i \in DOMAIN sorted |->
            [industry |-> sorted[i].industry,
             industryKey |-> sorted[i].industryKey,
             sector |-> sorted[i].sector, value |-> sorted[i].value,
             count |-> sorted[i].count,
             pct |-> IF totalValue > 0
                     THEN RoundHalfEven(sorted[i].value * 1000, totalValue) ELSE 0]]

FUND_THRESHOLD == 30     \* threshold = 30 if is_fund
STOCK_THRESHOLD == 15    \* ... else 15

\* lines 657-659: pctOfAccount (hundredths of a percent) when the holding
\* has one, else currentValue / total_value * 100; None when neither
HoldingPct(h, totalValue) ==
    IF h.pctOfAccount # None THEN Some(Rat(h.pctOfAccount[1], 100))
    ELSE IF totalValue > 0 THEN Some(Rat(h.currentValue * 100, totalValue))
    ELSE None

Threshold(h) == IF IsFundHolding(h) THEN FUND_THRESHOLD ELSE STOCK_THRESHOLD

\* the threshold itself counted as concentrated
IsConcentratedAtLeast(h, totalValue) ==
    LET pct == HoldingPct(h, totalValue)
    IN  pct # None /\ pct[1].n # 0 /\ ~RatLess(pct[1], Rat(Threshold(h), 1))

\* line 662: if pct and pct > threshold
IsConcentrated(h, totalValue) ==
    LET pct == HoldingPct(h, totalValue)
    IN  pct # None /\ pct[1].n # 0 /\ RatLess(Rat(Threshold(h), 1), pct[1])

\* lines 655-670.  round(pct, 1) is taken on the exact share; the code rounds
\* the binary float, which can differ by one tenth when the share ends in 5
\* hundredths
Concentration(hs, totalValue) ==
    LET flagged == SelectSeq(hs, LAMBDA h : IsConcentrated(h, totalValue))
    IN  [i \in DOMAIN flagged |->
            [symbol |-> flagged[i].symbol, name |-> flagged[i].name,
             pct |-> RoundHalfEven(HoldingPct(flagged[i], totalValue)[1].n * 10,
                                   HoldingPct(flagged[i], totalValue)[1].d),
             currentValue |-> flagged[i].currentValue,
             isFund |-> IsFundHolding(flagged[i]),
             threshold |-> Threshold(flagged[i])]]

\* The industries of ALLOWED_INDUSTRIES the model follows, as
\* sorted(ALLOWED_INDUSTRIES) orders them
AllowedSorted == <<"biotechnology", "semiconductors">>

INDUSTRY_LABELS(k) ==
    CASE k = "biotechnology" -> "Biotechnology"
      [] k = "semiconductors" -> "Semiconductors"
      [] OTHER -> k

\* lines 673-677
GapIndustries(hs) ==
    SelectSeq(AllowedSorted,
              LAMBDA k : \A i \in DOMAIN hs : hs[i].enr.industryKey # k)

MAX_GAP_FETCHES == 12    \* _MAX_GAP_FETCHES

\* fetch_gaps = gap_industries[:_MAX_GAP_FETCHES]
FetchGaps(hs) ==
    SubSeq(GapIndustries(hs), 1, Min(Len(GapIndustries(hs)), MAX_GAP_FETCHES))

\* What fetch_industry_picks can return for an industry: no picks, or picks
\* sorted by upside (in tenths of a percent), not all of them qualifying
PickLists ==
    {<< >>,
     <<[symbol |-> "P1", upsidePct |-> 300, recKey |-> "hold", nAnalysts |-> 8,
        lowCoverage |-> FALSE],
       [symbol |-> "P2", upsidePct |-> 100, recKey |-> "strong_buy",
        nAnalysts |-> 12, lowCoverage |-> FALSE],
       [symbol |-> "P3", upsidePct |-> 50, recKey |-> "buy", nAnalysts |-> 2,
        lowCoverage |-> TRUE]>>}

\* _RATING_SCORES.get((p.get("recKey") or "").lower(), 3)
RATING_SCORES(r) ==
    CASE r = "strong_buy" -> 5 [] r = "buy" -> 4 [] r = "hold" -> 3
      [] r \in {"sell", "underperform"} -> 2 [] r = "strong_sell" -> 1
      [] OTHER -> 3

\* lines 687-689
Qualifies(p) == p.nAnalysts >= 5 /\ p.upsidePct > 0 /\ ~p.lowCoverage

\* lines 691-695: round(0.6 * norm_rating + 0.4 * norm_upside, 3), in 1/1000
PickScore(p) ==
    RoundHalfEven(1500 * (RATING_SCORES(p.recKey) - 1)
                    + 4 * Min(p.upsidePct, 1000), 10)

ScoreKey(p) == p.score

\* _fetch_gap_opportunity (lines 682-706): None when nothing qualifies
FetchGapOpportunity(k, picks) ==
    LET q == SelectSeq(picks, Qualifies)
        scored == [i \in DOMAIN q |->
                     [symbol |-> q[i].symbol, upsidePct |-> q[i].upsidePct,
                      recKey |-> q[i].recKey, nAnalysts |-> q[i].nAnalysts,
                      lowCoverage |-> q[i].lowCoverage, score |-> PickScore(q[i])]]
        sorted == SortedByReverse(scored, ScoreKey)
    IN  IF q = << >> THEN None
        ELSE Some([industryKey |-> k, industryLabel |-> INDUSTRY_LABELS(k),
                   picks |-> SubSeq(sorted, 1, Min(Len(sorted), 3)),
                   allPicks |-> SubSeq(sorted, 1, Min(Len(sorted), 6))])

\* Position of a label in the order of Python strings
LabelRank(l) == CASE l = "Biotechnology" -> 1 [] l = "Semiconductors" -> 2
                  [] OTHER -> 3
LabelKey(o) == LabelRank(o.industryLabel)

\* the percentage test left out
IsTaxLossDollarsOnly(h) ==
    /\ Truthy(h.costBasis) /\ h.costBasis[1] > 0
    /\ h.currentValue < h.costBasis[1]
    /\ h.currentValue - h.costBasis[1] <= -100

\* lines 725-747.  Money in whole dollars, estTaxSavings in cents, lossPct
\* in tenths of a percent.
IsTaxLoss(h) ==
    /\ Truthy(h.costBasis) /\ h.costBasis[1] > 0
    /\ h.currentValue < h.costBasis[1]
    /\ h.currentValue - h.costBasis[1] <= -100
    /\ (h.currentValue - h.costBasis[1]) * 100 <= -5 * h.costBasis[1]

NearLow(h) ==
    LET low52 == h.enr.fiftyTwoWeekLow
        price == OrNum(h.lastPrice, h.enr.currentPrice)
    IN  /\ Truthy(low52) /\ Truthy(price) /\ low52[1] > 0
        /\ (price[1] - low52[1]) * 10 <= low52[1]

LossKey(x) == x.unrealizedLoss

TaxLossCandidates(hs) ==
    LET c == SelectSeq(hs, IsTaxLoss)
    IN  SortedBy([i \in DOMAIN c |->
                    [symbol |-> c[i].symbol, name |-> c[i].name,
                     currentValue |-> c[i].currentValue,
                     costBasis |-> c[i].costBasis[1],
                     unrealizedLoss |-> c[i].currentValue - c[i].costBasis[1],
                     lossPct |-> RoundHalfEven(
                         (c[i].currentValue - c[i].costBasis[1]) * 1000,
                         c[i].costBasis[1]),
                     estTaxSavings |-> (c[i].costBasis[1] - c[i].currentValue) * 24,
                     nearFiftyTwoWeekLow |-> NearLow(c[i])]],
                 LossKey)

\* lines 756-758: "dy and dy > 0 and val > 0"; NaN > 0 is False
PaysDividend(h) ==
    /\ h.enr.dividendYield # None /\ h.enr.dividendYield # NaN
    /\ (h.enr.dividendYield = PosInf \/ h.enr.dividendYield[1] > 0)
    /\ h.currentValue > 0

\* lines 759-768.  Yields are in 1/10000, so round(dy * 100, 2) is the same
\* number in hundredths of a percent; incomes are in cents.  A product or
\* quotient with an infinite yield is infinite, and round() keeps it.
DividendEntry(h) ==
    LET dy == h.enr.dividendYield
        annual == RoundHalfEven(h.currentValue * dy[1], 100)
    IN  [symbol |-> h.symbol, name |-> h.name, currentValue |-> h.currentValue,
         dividendYield |-> dy,
         annualIncome |-> IF dy = PosInf THEN PosInf ELSE Some(annual),
         monthlyIncome |-> IF dy = PosInf THEN PosInf
                           ELSE Some(RoundHalfEven(annual, 12))]

InfiniteIncome(d) == d.annualIncome = PosInf
FiniteIncome(d) == d.annualIncome # PosInf
IncomeKey(d) == d.annualIncome[1]

\* lines 753-779
Dividends(hs, totalValue) ==
    LET entries == [i \in DOMAIN SelectSeq(hs, PaysDividend) |->
                       DividendEntry(SelectSeq(hs, PaysDividend)[i])]
        finite == SelectSeq(entries, FiniteIncome)
        anyInf == \E i \in DOMAIN entries : InfiniteIncome(entries[i])
        total == SumSeq([i \in DOMAIN finite |-> finite[i].annualIncome[1]])
    IN  [totalAnnual |-> IF anyInf THEN PosInf ELSE Some(total),
         totalMonthly |-> IF anyInf THEN PosInf
                          ELSE Some(RoundHalfEven(total, 12)),
         weightedYield |-> IF totalValue <= 0 THEN Some(0)
                           ELSE IF anyInf THEN PosInf
                           ELSE Some(RoundHalfEven(total * 100, totalValue)),
         \* sort(reverse=True) is stable: the infinite incomes come first
         holdings |-> SelectSeq(entries, InfiniteIncome)
                        \o SortedByReverse(finite, IncomeKey),
         payingCount |-> Len(entries),
         totalCount |-> Len(SelectSeq(hs, LAMBDA h : ~h.enr.isFund))]

\* _sanitize_for_json on a number: NaN and the infinities become None
SanitizeForJson(x) == IF IsNonFinite(x) THEN None ELSE x

\* The enrichment fields that hold numbers
NumericFields ==
    {"marketCap", "currentPrice", "targetMeanPrice", "nAnalysts",
     "dividendYield", "fiveYearAvgDividendYield", "exDividendDate",
     "fiftyTwoWeekHigh", "fiftyTwoWeekLow", "beta", "trailingPE"}

\* lines 788-808, after _sanitize_for_json (line 810)
WidgetHolding(h) ==
    [symbol |-> h.symbol, name |-> h.name, currentValue |-> h.currentValue,
     pctOfAccount |-> h.pctOfAccount, isFund |-> h.enr.isFund,
     industryKey |-> h.enr.industryKey, industry |-> h.enr.industry,
     sectorWeights |-> h.enr.sectorWeights,
     dividendYield |-> SanitizeForJson(h.enr.dividendYield),
     fiftyTwoWeekHigh |-> SanitizeForJson(h.enr.fiftyTwoWeekHigh),
     fiftyTwoWeekLow |-> SanitizeForJson(h.enr.fiftyTwoWeekLow),
     beta |-> SanitizeForJson(h.enr.beta),
     trailingPE |-> SanitizeForJson(h.enr.trailingPE),
     targetMeanPrice |-> SanitizeForJson(h.enr.targetMeanPrice),
     recommendationKey |-> h.enr.recommendationKey,
     nAnalysts |-> SanitizeForJson(h.enr.nAnalysts),
     currentPrice |-> SanitizeForJson(h.enr.currentPrice),
     lastPrice |-> h.lastPrice]

\* lines 782, 810-816.  The breakdowns and the overview are built from the
\* values and prices of the holdings, which are finite in this model, so
\* _sanitize_for_json leaves them as they are.
WidgetMeta(hs, bySector, concentration, ao) ==
    [holdings |-> [i \in DOMAIN hs |-> WidgetHolding(hs[i])],
     portfolioSectors |-> [i \in DOMAIN bySector |->
                             [sector |-> bySector[i].sector,
                              pct |-> bySector[i].pct]],
     bySector |-> bySector, concentration |-> concentration,
     analystOverview |-> ao]

ResultKeys ==
    {"holdings", "totalValue", "totalCost", "totalGain", "totalGainPct",
     "bySector", "byIndustry", "concentration", "gaps", "opportunities",
     "industryLabels", "analystOverview", "widgetMeta", "taxLossCandidates",
     "healthScore", "dividends"}

\* The dict of lines 818-835, for holdings already sorted (line 593) and
\* the opportunities collected by the fan-out.  totalGainPct is in
\* hundredths of a percent.
AnalysisResult(hs, opps) ==
    LET totalValue == SumSeq([i \in DOMAIN hs |-> hs[i].currentValue])
        totalCost == SumSeq([i \in DOMAIN hs |-> OrZero(hs[i].costBasis)])
        bySector == BySector(hs, totalValue)
        concentration == Concentration(hs, totalValue)
        ao == ComputeAnalystOverview(hs)
    IN  [holdings |-> hs,
         totalValue |-> totalValue,
         totalCost |-> totalCost,
         totalGain |-> SumSeq([i \in DOMAIN hs |-> OrZero(hs[i].totalGainDollar)]),
         totalGainPct |-> IF totalCost > 0
                          THEN RoundHalfEven((totalValue - totalCost) * 10000,
                                             totalCost)
                          ELSE 0,
         bySector |-> bySector,
         byIndustry |-> ByIndustry(hs, totalValue),
         concentration |-> concentration,
         gaps |-> GapIndustries(hs),
         opportunities |-> SortedBy(opps, LabelKey),
         industryLabels |-> [i \in DOMAIN AllowedSorted |->
                               INDUSTRY_LABELS(AllowedSorted[i])],
         analystOverview |-> ao,
         widgetMeta |-> WidgetMeta(hs, bySector, concentration, ao),
         taxLossCandidates |-> TaxLossCandidates(hs),
         healthScore |-> ComputeHealthScore(hs, bySector, concentration, ao),
         dividends |-> Dividends(hs, totalValue)]

MaxAHoldings == 2       \* longest holdings list handed to analyze_portfolio

\* Provider data of a stock analysts want sold, and of a stock for which
\* the provider reports NaN and infinite figures
BearInfo ==
    [StockInfo EXCEPT !.sector = Some("Healthcare"),
                      !.sectorKey = Some("healthcare"),
                      !.industry = Some("Biotechnology"),
                      !.industryKey = Some("biotechnology"),
                      !.targetMeanPrice = Some(50),
                      !.recommendationKey = Some("sell")]
NanInfo ==
    [StockInfo EXCEPT !.beta = NaN, !.trailingPE = PosInf,
                      !.dividendYield = PosInf]

AnalysisOutcomes == {"error", "stock", "bear", "nan", "fund"}

\* The enrichment enrich_holdings leaves on a holding, by what the provider
\* did for its symbol
AnalysisEnrichment(p) ==
    CASE p = "bear" -> EnrichmentOf(BearInfo, "raise")
      [] p = "nan" -> EnrichmentOf(NanInfo, "raise")
      [] OTHER -> EnrichOneResult(p)

\* The money columns of a parsed row (parse_portfolio_csv, lines 254-285)
BaseRows ==
    {[currentValue |-> 9000, costBasis |-> Some(6000), lastPrice |-> Some(100),
      totalGainDollar |-> Some(3000)],
     [currentValue |-> 1000, costBasis |-> Some(2000), lastPrice |-> Some(85),
      totalGainDollar |-> Some(-1000)],
     [currentValue |-> 3000, costBasis |-> None, lastPrice |-> None,
      totalGainDollar |-> None]}

\* Parsed and enriched holdings: symbols are unique after the merge of
\* lines 289-300, and pctOfAccount is what line 310 computes (in hundredths
\* of a percent)
MakeHoldings(rows) ==
    LET total == SumSeq([i \in DOMAIN rows |-> rows[i][1].currentValue])
    IN  [i \in DOMAIN rows |->
            [symbol |-> "S" \o ToString(i), name |-> "n",
             lastPrice |-> rows[i][1].lastPrice,
             currentValue |-> rows[i][1].currentValue,
             costBasis |-> rows[i][1].costBasis,
             totalGainDollar |-> rows[i][1].totalGainDollar,
             pctOfAccount |-> Some(IF total > 0
                                   THEN RoundHalfEven(
                                          rows[i][1].currentValue * 10000, total)
                                   ELSE 0),
             enr |-> AnalysisEnrichment(rows[i][2])]]

AHoldingLists ==
    UNION {{MakeHoldings(rows) : rows \in [1..n -> BaseRows \X AnalysisOutcomes]} :
             n \in 1..MaxAHoldings}

MaxBHoldings == 2       \* longest holdings list of the threshold cases

\* Money columns at the edges of the concentration and tax-loss rules:
\* shares of exactly and just over 15 and 30 percent, losses of exactly
\* 100 dollars and exactly 5 percent and just short of each, no cost at all
ThresholdRows ==
    {[currentValue |-> 1500, costBasis |-> Some(1599), lastPrice |-> Some(100),
      totalGainDollar |-> Some(-99)],
     [currentValue |-> 1501, costBasis |-> Some(1601), lastPrice |-> Some(100),
      totalGainDollar |-> Some(-100)],
     [currentValue |-> 8500, costBasis |-> Some(0), lastPrice |-> Some(100),
      totalGainDollar |-> Some(8500)],
     [currentValue |-> 8499, costBasis |-> None, lastPrice |-> Some(100),
      totalGainDollar |-> None],
     [currentValue |-> 3000, costBasis |-> Some(4000), lastPrice |-> Some(100),
      totalGainDollar |-> Some(-1000)],
     [currentValue |-> 3002, costBasis |-> Some(3160), lastPrice |-> Some(100),
      totalGainDollar |-> Some(-158)],
     [currentValue |-> 7000, costBasis |-> Some(7368), lastPrice |-> Some(100),
      totalGainDollar |-> Some(-368)]}

ThresholdOutcomes == {"stock", "fund"}

\* Holdings with pctOfAccount as the parser computes it, or without the key
\* (line 658 then derives the share from currentValue)
WithPct(hs, keep) ==
    [i \in DOMAIN hs |-> IF keep THEN hs[i] ELSE [hs[i] EXCEPT !.pctOfAccount = None]]

BHoldingLists ==
    UNION {{WithPct(MakeHoldings(rows), keep) :
              rows \in [1..n -> ThresholdRows \X ThresholdOutcomes],
              keep \in BOOLEAN} :
           n \in 1..MaxBHoldings}

SortLen == 3            \* length of the lists that show the sort

\* Lists of stocks worth 1000 or 3000 each, in any order
SortHoldingLists ==
    {MakeHoldings(rows) :
        rows \in [1..SortLen ->
                    {r \in BaseRows : r.currentValue \in {1000, 3000}}
                        \X {"stock"}]}

\* descending, equal values in the reverse of their order
SortedHoldingsReversed(hs) ==
    LET asc == SortedBy(hs, CurrentValueKey)
    IN  [i \in DOMAIN asc |-> asc[Len(asc) + 1 - i]]

\* line 593: holdings.sort(key=lambda h: h.get("currentValue") or 0,
\* reverse=True)
SortedHoldings(hs) == SortedByReverse(hs, CurrentValueKey)

InitAnalyzeVars ==
    /\ aholdings = << >> /\ apc = "off" /\ apending = {}
    /\ aopps = << >> /\ aexc = "" /\ aout = None

\* lines 593-711: the holdings are sorted in place, the gaps are computed
\* and one task per gap industry is handed to the pool
AnalyzeStart ==
    /\ apc = "ready"
    /\ aholdings' = SortedHoldings(aholdings)
    /\ apending' = {FetchGaps(aholdings)[i] : i \in DOMAIN FetchGaps(aholdings)}
    /\ apc' = "fanout"
    /\ UNCHANGED <<aopps, aexc, aout, notAnalyze>>

\* lines 712-718: as_completed yields the task of gap industry k, for which
\* fetch_industry_picks gave picks, or which raised
GapCollect(k, picks, raised) ==
    /\ apc = "fanout"
    /\ k \in apending
    /\ apending' = apending \ {k}
    /\ aopps' = IF ~raised /\ FetchGapOpportunity(k, picks) # None
                THEN Append(aopps, FetchGapOpportunity(k, picks)[1])
                ELSE aopps
    /\ UNCHANGED <<aholdings, apc, aexc, aout, notAnalyze>>

\* line 712: as_completed(futures, timeout=30) raises TimeoutError while
\* tasks are unfinished; nothing in analyze_portfolio catches it
GapTimeout ==
    /\ apc = "fanout"
    /\ apending # {}
    /\ apending' = {}
    /\ apc' = "raised"
    /\ aexc' = "TimeoutError"
    /\ UNCHANGED <<aholdings, aopps, aout, notAnalyze>>

\* lines 719-835: the rest of the analysis, which raises TypeError from
\* _compute_health_score (line 750) when the overview has no weighted upside
AnalyzeFinish ==
    /\ apc = "fanout"
    /\ apending = {}
    /\ IF HealthRaises(ComputeAnalystOverview(aholdings))
       THEN apc' = "raised" /\ aexc' = "TypeError" /\ aout' = None
       ELSE apc' = "returned" /\ aexc' = ""
            /\ aout' = Some(AnalysisResult(aholdings, aopps))
    /\ UNCHANGED <<aholdings, apending, aopps, notAnalyze>>

NextAnalyze ==
    \/ AnalyzeStart
    \/ \E k \in apending, picks \in PickLists, raised \in BOOLEAN :
          GapCollect(k, picks, raised)
    \/ GapTimeout
    \/ AnalyzeFinish

----------------------------------------------------------------------------
(* Text: a Python str is the sequence of its characters                    *)

Lowercase == <<"a", "b", "c", "d", "e", "f", "g", "h", "i", "j", "k", "l", "m",
               "n", "o", "p", "q", "r", "s", "t", "u", "v", "w", "x", "y", "z">>
Uppercase == <<"A", "B", "C", "D", "E", "F", "G", "H", "I", "J", "K", "L", "M",
               "N", "O", "P", "Q", "R", "S", "T", "U", "V", "W", "X", "Y", "Z">>

\* str.upper()
UpperChar(c) ==
    IF \E i \in DOMAIN Lowercase : Lowercase[i] = c
    THEN Uppercase[CHOOSE i \in DOMAIN Lowercase : Lowercase[i] = c]
    ELSE c
Upper(s) == [i \in DOMAIN s |-> UpperChar(s[i])]

RECURSIVE LStrip(_)
LStrip(s) == IF s # << >> /\ Head(s) = " " THEN LStrip(Tail(s)) ELSE s
RECURSIVE RStrip(_)
RStrip(s) ==
    IF s # << >> /\ s[Len(s)] = " " THEN RStrip(SubSeq(s, 1, Len(s) - 1)) ELSE s
\* str.strip()
Strip(s) == RStrip(LStrip(s))

\* s.replace(c, "") for every character c of chars
Without(s, chars) == SelectSeq(s, LAMBDA c : c \notin chars)

\* sub in s, s.startswith(sub), s.endswith(sub)
Contains(s, sub) ==
    \E i \in 1..(Len(s) - Len(sub) + 1) : SubSeq(s, i, i + Len(sub) - 1) = sub
StartsWith(s, sub) == Len(sub) <= Len(s) /\ SubSeq(s, 1, Len(sub)) = sub
EndsWith(s, sub) ==
    Len(sub) <= Len(s) /\ SubSeq(s, Len(s) - Len(sub) + 1, Len(s)) = sub

Digits == <<"0", "1", "2", "3", "4", "5", "6", "7", "8", "9">>
IsDigit(c) == \E i \in DOMAIN Digits : Digits[i] = c
DigitValue(c) == (CHOOSE i \in DOMAIN Digits : Digits[i] = c) - 1

RECURSIVE DigitsValue(_)
\* the number a run of digits writes; 0 for the empty run
DigitsValue(s) ==
    IF s = << >> THEN 0
    ELSE DigitsValue(SubSeq(s, 1, Len(s) - 1)) * 10 + DigitValue(s[Len(s)])

\* float(s) for the texts of amounts: an optional minus sign, digits and at
\* most one point with at most two digits behind it.  The value is in
\* hundredths; None stands for ValueError.
ParseFloat(s) ==
    LET neg == s # << >> /\ Head(s) = "-"
        body == IF neg THEN Tail(s) ELSE s
        dots == {i \in DOMAIN body : body[i] = "."}
        dot == IF dots = {} THEN Len(body) + 1 ELSE CHOOSE i \in dots : TRUE
        whole == SubSeq(body, 1, dot - 1)
        frac == SubSeq(body, dot + 1, Len(body))
        ok == /\ Cardinality(dots) <= 1
              /\ Len(whole) + Len(frac) > 0
              /\ Len(frac) <= 2
              /\ \A i \in DOMAIN whole : IsDigit(whole[i])
              /\ \A i \in DOMAIN frac : IsDigit(frac[i])
        cents == DigitsValue(whole) * 100
                   + (IF Len(frac) = 1 THEN DigitsValue(frac) * 10
                      ELSE DigitsValue(frac))
    IN  IF ok THEN Some(IF neg THEN -cents ELSE cents) ELSE None

----------------------------------------------------------------------------
(* financials/portfolio.py: _clean_money                                   *)

\* The texts line 53 takes for "no value"; "emdash" is the one character
\* U+2014
NoValueTexts == {<< >>, <<"-", "-">>, <<"n", "/", "a">>, <<"N", "/", "A">>,
                 <<"emdash">>, <<"-">>}

\* _clean_money(val), val being None (a missing or empty cell) or the text
\* of the cell; the result is in hundredths
CleanMoney(val) ==
    IF val = None THEN None
    ELSE LET s == Strip(val[1])
             negative == StartsWith(s, <<"(">>) /\ EndsWith(s, <<")">>)
             inner == IF negative THEN SubSeq(s, 2, Len(s) - 1) ELSE s
             result == ParseFloat(Without(inner, {"$", "%", ",", "+"}))
         IN  IF s \in NoValueTexts THEN None
             ELSE IF result = None THEN None
             ELSE IF negative THEN Some(-result[1]) ELSE result

----------------------------------------------------------------------------
(* financials/portfolio.py: parse_portfolio_csv                            *)

\* A line of the file after the CSV reader split it: a blank line, the
\* header, or a row with the text of its cells (None for an empty cell,
\* which the reader hands over as NaN).  Symbol and Description cells of the
\* model are never empty.
Line(kind, sym, desc, qty, price, value, cost, avg, gain) ==
    [kind |-> kind, symbol |-> sym, description |-> desc,
     quantity |-> qty, lastPrice |-> price,
     currentValue |-> value, costBasis |-> cost,
     avgCost |-> avg, gainDollar |-> gain]

Blank == Line("blank", << >>, << >>, None, None, None, None, None, None)
Header == Line("header", << >>, << >>, None, None, None, None, None, None)

\* a lower-case, padded symbol with dollar amounts
RowFirst ==
    Line("row", <<" ", "a", "a", "p", "l", " ">>,
         <<"A", "p", "p", "l", "e">>,
         Some(<<"1", "0">>), Some(<<"$", "1", "5", "0", ".", "0", "0">>),
         Some(<<"$", "1", ",", "5", "0", "0", ".", "0", "0">>),
         Some(<<"$", "1", ",", "0", "0", "0", ".", "0", "0">>), None,
         Some(<<"+", "$", "5", "0", "0", ".", "0", "0">>))

\* the same stock in a second account, without a cost basis
RowAgain ==
    Line("row", <<"A", "A", "P", "L">>,
         <<"A", "p", "p", "l", "e", " ", "I", "n", "c">>,
         Some(<<"5">>), Some(<<"1", "5", "1">>),
         Some(<<"7", "5", "5">>),
         Some(<<"-", "-">>), None,
         None)

\* a symbol that carries an asterisk
RowStar ==
    Line("row", <<"M", "S", "F", "T", "*">>,
         <<"M", "s", "f", "t">>,
         Some(<<"2">>), None,
         Some(<<"2", "0", "0", "0">>),
         Some(<<"1", "8", "0", "0">>), None,
         Some(<<"2", "0", "0">>))

\* a short position: a parenthesized amount
RowShort ==
    Line("row", <<"S", "H", "R", "T">>,
         <<"S", "h", "o", "r", "t">>,
         Some(<<"-", "5">>), Some(<<"1", "0", "0">>),
         Some(<<"(", "$", "5", "0", "0", ".", "0", "0", ")">>),
         None, None,
         None)

\* value 0 and quantity 0
RowZero ==
    Line("row", <<"Z", "E", "R", "O">>,
         <<"Z", "e", "r", "o">>,
         Some(<<"0">>), None,
         Some(<<"0">>),
         None, None,
         None)

\* a money-market sweep
RowCash ==
    Line("row", <<"S", "P", "A", "X", "X", "*", "*">>,
         <<"C", "a", "s", "h">>,
         None, None,
         Some(<<"1", "0", "0">>),
         None, None,
         None)

\* no value and no cost basis, but price, cost per share and quantity
RowCalc ==
    Line("row", <<"C", "A", "L", "C">>,
         <<"C", "a", "l", "c">>,
         Some(<<"3">>), Some(<<"1", "0", ".", "5", "0">>),
         None,
         None, Some(<<"9", ".", "0", "0">>),
         None)

\* neither a value nor a quantity
RowNoValue ==
    Line("row", <<"N", "O", "V", "A", "L">>,
         <<"N", "o", "n", "e">>,
         None, Some(<<"1", "2">>),
         Some(<<"-", "-">>),
         None, None,
         None)

\* a summary row
RowTotal ==
    Line("row", <<"A", "c", "c", "o", "u", "n", "t", " ", "T", "o", "t", "a", "l">>,
         <<"S", "u", "m">>,
         None, None,
         Some(<<"4", ",", "8", "8", "6", ".", "5", "0">>),
         None, None,
         None)

SampleRows == {RowFirst, RowAgain, RowStar, RowShort, RowZero,
               RowCash, RowCalc, RowNoValue, RowTotal}

\* _SKIP_SYMBOLS (lines 40-44)
SKIP_SYMBOLS ==
    {<<"F", "C", "A", "S", "H">>,
     <<"P", "E", "N", "D", "I", "N", "G", " ", "A", "C", "T", "I", "V", "I", "T", "Y">>,
     <<"C", "A", "S", "H">>,
     <<"C", "A", "S", "H", " ", "&", " ", "C", "A", "S", "H", " ", "I", "N", "V", "E", "S", "T", "M", "E", "N", "T", "S">>,
     <<"S", "P", "A", "X", "X">>,
     <<"S", "W", "V", "X", "X">>,
     <<"V", "M", "F", "X", "X">>,
     <<"F", "D", "R", "X", "X">>,
     <<"A", "C", "C", "O", "U", "N", "T", " ", "T", "O", "T", "A", "L">>,
     <<"T", "O", "T", "A", "L">>}

PENDING == <<"P", "E", "N", "D", "I", "N", "G">>
TOTAL == <<"T", "O", "T", "A", "L">>
CASH_AND_CASH == <<"C", "A", "S", "H", " ", "&", " ", "C", "A", "S", "H">>

\* lines 211-222: the non-blank lines, up to the second of two consecutive
\* blank lines that follow a kept line
RECURSIVE CleanFrom(_, _, _)
CleanFrom(lines, clean, blanks) ==
    IF lines = << >> THEN clean
    ELSE IF Head(lines).kind = "blank"
    THEN (IF clean # << >> /\ blanks + 1 >= 2 THEN clean
          ELSE CleanFrom(Tail(lines), clean,
                         IF clean # << >> THEN blanks + 1 ELSE blanks))
    ELSE CleanFrom(Tail(lines), Append(clean, Head(lines)), 0)

\* every non-blank line of the file, wherever it stands
CleanLinesAll(lines) == SelectSeq(lines, LAMBDA l : l.kind # "blank")

CleanLines(lines) == CleanFrom(lines, << >>, 0)

\* lines 237-240
CleanSymbol(cell) == Strip(Without(Upper(Strip(cell)), {"*", "+"}))

\* _SKIP_PATTERN.search(symbol), line 245
SkipPattern(symbol) == Contains(symbol, <<"*">>)

\* lines 243-251
SkipSymbol(symbol) ==
    \/ symbol = << >> \/ symbol \in SKIP_SYMBOLS
    \/ SkipPattern(symbol)
    \/ StartsWith(symbol, PENDING)
    \/ Contains(symbol, TOTAL) \/ Contains(symbol, CASH_AND_CASH)

\* round(a * b, 2) for a and b in hundredths, and round(a / b * 100, 2),
\* round(a / b, 2) with a and b in the same unit (b # 0)
RoundProduct(a, b) == RoundHalfEven(a * b, 100)
\* (the fraction is reduced before it is scaled)
RoundRatio(a, b, scale) ==
    LET num == IF b > 0 THEN a ELSE -a
        den == IF b > 0 THEN b ELSE -b
        g == Gcd(IF num < 0 THEN -num ELSE num, den)
        h == Gcd(scale, den \div g)
    IN  RoundHalfEven((num \div g) * (scale \div h), (den \div g) \div h)

\* lines 264-265 and 268-269: a missing amount is price times quantity
Derived(amount, price, quantity) ==
    IF amount = None /\ price # None /\ quantity # None
    THEN Some(RoundProduct(price[1], quantity[1])) ELSE amount

\* line 272: "Must have at least a symbol and some value"
NoData(currentValue, quantity) == currentValue = None /\ quantity = None

\* lines 237-286: the holding of a row, None for a row that is skipped.
\* Amounts and quantities are in hundredths.
ParseRow(row) ==
    LET symbol == CleanSymbol(row.symbol)
        quantity == CleanMoney(row.quantity)
        lastPrice == CleanMoney(row.lastPrice)
        currentValue == Derived(CleanMoney(row.currentValue), lastPrice, quantity)
        avgCost == CleanMoney(row.avgCost)
        costBasis == Derived(CleanMoney(row.costBasis), avgCost, quantity)
    IN  IF SkipSymbol(symbol) \/ NoData(currentValue, quantity) THEN None
        ELSE Some([symbol |-> symbol, name |-> Strip(row.description),
                   quantity |-> quantity, lastPrice |-> lastPrice,
                   currentValue |-> Some(OrZero(currentValue)),
                   costBasis |-> costBasis, costBasisPerShare |-> avgCost,
                   totalGainDollar |-> CleanMoney(row.gainDollar),
                   totalGainPct |-> None, pctOfAccount |-> None])

\* lines 235-286
ParseRows(rows) ==
    LET parsed == [i \in DOMAIN rows |-> ParseRow(rows[i])]
        kept == SelectSeq(parsed, LAMBDA h : h # None)
    IN  [i \in DOMAIN kept |-> kept[i][1]]

\* A merge that writes the sums into the later row's holding
MergeIntoLater(m, h) ==
    [h EXCEPT !.quantity = Some(OrZero(m.quantity) + OrZero(h.quantity)),
              !.currentValue = Some(OrZero(m.currentValue) + OrZero(h.currentValue)),
              !.costBasis = Some(OrZero(m.costBasis) + OrZero(h.costBasis)),
              !.totalGainDollar =
                  Some(OrZero(m.totalGainDollar) + OrZero(h.totalGainDollar))]

\* lines 297-300: (m[f] or 0) + (h[f] or 0)
MergeInto(m, h) ==
    [m EXCEPT !.quantity = Some(OrZero(m.quantity) + OrZero(h.quantity)),
              !.currentValue = Some(OrZero(m.currentValue) + OrZero(h.currentValue)),
              !.costBasis = Some(OrZero(m.costBasis) + OrZero(h.costBasis)),
              !.totalGainDollar =
                  Some(OrZero(m.totalGainDollar) + OrZero(h.totalGainDollar))]

RECURSIVE Merge(_, _)
\* lines 290-302: merged keeps its keys in the order of their first row
Merge(hs, merged) ==
    IF hs = << >> THEN merged
    ELSE Merge(Tail(hs),
               IF \E i \in DOMAIN merged : merged[i].symbol = Head(hs).symbol
               THEN [i \in DOMAIN merged |->
                       IF merged[i].symbol = Head(hs).symbol
                       THEN MergeInto(merged[i], Head(hs)) ELSE merged[i]]
               ELSE Append(merged, Head(hs)))

\* lines 305-312; pctOfAccount and totalGainPct in hundredths of a percent
Recalculate(hs) ==
    LET totalValue == SumSeq([i \in DOMAIN hs |-> OrZero(hs[i].currentValue)])
    IN  [i \in DOMAIN hs |->
            [hs[i] EXCEPT
               !.pctOfAccount =
                   Some(IF totalValue > 0
                        THEN RoundRatio(OrZero(hs[i].currentValue), totalValue, 10000)
                        ELSE 0),
               !.totalGainPct =
                   IF Truthy(hs[i].costBasis)
                   THEN Some(RoundRatio(OrZero(hs[i].currentValue) - hs[i].costBasis[1],
                                        hs[i].costBasis[1], 10000))
                   ELSE None,
               !.costBasisPerShare =
                   IF Truthy(hs[i].costBasis) /\ Truthy(hs[i].quantity)
                   THEN Some(RoundRatio(hs[i].costBasis[1], hs[i].quantity[1], 100))
                   ELSE None]]

\* line 225: pd.read_csv raises EmptyDataError ("No columns to parse from
\* file") on a text without any line
ReadCsvRaises(clean) == clean = << >>

\* read_csv takes the first line for the header; the rest are the rows
ParseResult(lines) == Recalculate(Merge(ParseRows(Tail(CleanLines(lines))), << >>))

InitParseVars == pfile = << >> /\ ppc = "off" /\ pexc = "" /\ pout = << >>

\* parse_portfolio_csv(file_stream), lines 198-314
ParsePortfolioCsv ==
    /\ ppc = "ready"
    /\ IF ReadCsvRaises(CleanLines(pfile))
       THEN ppc' = "raised" /\ pexc' = "EmptyDataError" /\ pout' = << >>
       ELSE ppc' = "returned" /\ pexc' = "" /\ pout' = ParseResult(pfile)
    /\ UNCHANGED <<pfile, notParse>>

MaxLines == 3           \* most lines after the header of an uploaded file

\* Files with a header: any mix of sample rows and blank lines after it;
\* and the files without any text: empty, or blank lines only
FileBodies ==
    UNION {[1..n -> SampleRows \cup {Blank}] : n \in 0..MaxLines}
Files ==
    {<<Header>> \o body : body \in FileBodies}
      \cup {<< >>, <<Blank>>, <<Blank, Blank>>}

MaxLeading == 2         \* most blank lines before the header
MaxBodyLines == 6       \* most lines after the header of such a file

\* Files that begin with blank lines: the header follows them, then any mix
\* of blank lines and rows that each give a holding
BlankLineFiles ==
    {[i \in 1..lead |-> Blank] \o <<Header>> \o body :
        lead \in 0..MaxLeading,
        body \in UNION {[1..n -> {Blank, RowStar, RowShort}] :
                           n \in 0..MaxBodyLines}}

MaxCopies == 12         \* most rows of one amount in a file of equal positions

\* A row that carries only a symbol, numbered i, and a value
ValueRow(i, value) ==
    Line("row", <<"H", Digits[(i \div 10) + 1], Digits[(i % 10) + 1]>>, <<"n">>,
         None, None, Some(value), None, None, None)

\* Files of n1 positions worth 300 followed by n2 positions worth 700
EqualPositionFiles ==
    {<<Header>> \o [i \in 1..(n1 + n2) |->
                      ValueRow(i, IF i <= n1 THEN <<"3", "0", "0">>
                                  ELSE <<"7", "0", "0">>)] :
        n1 \in 0..MaxCopies, n2 \in 0..MaxCopies}

----------------------------------------------------------------------------
(* financials/portfolio.py: _normalize_columns                              *)
(* A column name is the sequence of its characters; the labels of the       *)
(* frame after the renaming are given as texts.                             *)

\* _COLUMN_ALIASES (lines 73-158): lower-cased name -> canonical name
COLUMN_ALIASES ==
       ("symbol" :> "Symbol")
    @@ ("ticker" :> "Symbol")
    @@ ("ticker symbol" :> "Symbol")
    @@ ("description" :> "Description")
    @@ ("name" :> "Description")
    @@ ("security name" :> "Description")
    @@ ("security description" :> "Description")
    @@ ("investment name" :> "Description")
    @@ ("security" :> "Description")
    @@ ("holding" :> "Description")
    @@ ("quantity" :> "Quantity")
    @@ ("shares" :> "Quantity")
    @@ ("qty" :> "Quantity")
    @@ ("share count" :> "Quantity")
    @@ ("last price" :> "Last Price")
    @@ ("price" :> "Last Price")
    @@ ("share price" :> "Last Price")
    @@ ("close price" :> "Last Price")
    @@ ("closing price" :> "Last Price")
    @@ ("last" :> "Last Price")
    @@ ("market price" :> "Last Price")
    @@ ("current price" :> "Last Price")
    @@ ("current value" :> "Current Value")
    @@ ("market value" :> "Current Value")
    @@ ("total value" :> "Current Value")
    @@ ("value" :> "Current Value")
    @@ ("mkt value" :> "Current Value")
    @@ ("account value" :> "Current Value")
    @@ ("equity" :> "Current Value")
    @@ ("cost basis total" :> "Cost Basis Total")
    @@ ("cost basis" :> "Cost Basis Total")
    @@ ("total cost" :> "Cost Basis Total")
    @@ ("total cost basis" :> "Cost Basis Total")
    @@ ("cost" :> "Cost Basis Total")
    @@ ("book value" :> "Cost Basis Total")
    @@ ("purchase value" :> "Cost Basis Total")
    @@ ("average cost basis" :> "Average Cost Basis")
    @@ ("cost basis per share" :> "Average Cost Basis")
    @@ ("avg cost" :> "Average Cost Basis")
    @@ ("average cost" :> "Average Cost Basis")
    @@ ("avg cost/share" :> "Average Cost Basis")
    @@ ("avg price" :> "Average Cost Basis")
    @@ ("unit cost" :> "Average Cost Basis")
    @@ ("total gain/loss dollar" :> "Total Gain/Loss Dollar")
    @@ ("gain/loss dollar" :> "Total Gain/Loss Dollar")
    @@ ("gain/loss $" :> "Total Gain/Loss Dollar")
    @@ ("gain loss $" :> "Total Gain/Loss Dollar")
    @@ ("unrealized gain/loss" :> "Total Gain/Loss Dollar")
    @@ ("unrealized p&l" :> "Total Gain/Loss Dollar")
    @@ ("gain/loss" :> "Total Gain/Loss Dollar")
    @@ ("p&l" :> "Total Gain/Loss Dollar")
    @@ ("total gain/loss" :> "Total Gain/Loss Dollar")
    @@ ("total gain/loss percent" :> "Total Gain/Loss Percent")
    @@ ("gain/loss percent" :> "Total Gain/Loss Percent")
    @@ ("gain/loss %" :> "Total Gain/Loss Percent")
    @@ ("gain loss %" :> "Total Gain/Loss Percent")
    @@ ("unrealized gain/loss %" :> "Total Gain/Loss Percent")
    @@ ("% gain/loss" :> "Total Gain/Loss Percent")
    @@ ("percent of account" :> "Percent Of Account")
    @@ ("% of account" :> "Percent Of Account")
    @@ ("% of portfolio" :> "Percent Of Account")
    @@ ("weight" :> "Percent Of Account")
    @@ ("portfolio %" :> "Percent Of Account")
    @@ ("allocation" :> "Percent Of Account")
    @@ ("allocation %" :> "Percent Of Account")

\* str.lower()
LowerChar(c) ==
    IF \E i \in DOMAIN Uppercase : Uppercase[i] = c
    THEN Lowercase[CHOOSE i \in DOMAIN Uppercase : Uppercase[i] = c]
    ELSE c
Lower(s) == [i \in DOMAIN s |-> LowerChar(s[i])]

RECURSIVE Text(_)
\* the characters of s as one text
Text(s) == IF s = << >> THEN "" ELSE Head(s) \o Text(Tail(s))

\* lines 172-173: _COLUMN_ALIASES.get(col.strip().lower())
CanonicalOf(col) ==
    LET lower == Text(Lower(Strip(col)))
    IN  IF lower \in DOMAIN COLUMN_ALIASES THEN Some(COLUMN_ALIASES[lower])
        ELSE None

RECURSIVE RenameMap(_, _)
\* lines 170-175: rename_map as the list of its (column, canonical) items;
\* a canonical name that is already a value is not entered again
RenameMap(cols, map) ==
    IF cols = << >> THEN map
    ELSE LET canonical == CanonicalOf(Head(cols))
             used == {map[i][2] : i \in DOMAIN map}
         IN  RenameMap(Tail(cols),
                       IF canonical # None /\ canonical[1] \notin used
                       THEN Append(map, <<Head(cols), canonical[1]>>)
                       ELSE map)

\* lines 176-177: df.rename(columns=rename_map) gives every column whose
\* name is a key of rename_map its canonical name and leaves the others
Rename(cols, map) ==
    [i \in DOMAIN cols |->
        IF \E k \in DOMAIN map : map[k][1] = cols[i]
        THEN map[CHOOSE k \in DOMAIN map : map[k][1] = cols[i]][2]
        ELSE Text(cols[i])]

\* _normalize_columns(df), lines 168-178: the labels of the returned frame
NormalizeColumns(cols) == Rename(cols, RenameMap(cols, << >>))

\* line 228: df.columns.str.strip()
StripColumns(cols) == [i \in DOMAIN cols |-> Strip(cols[i])]

MaxColumns == 3         \* most columns of a header row

\* Names read_csv can find in a header row: canonical spellings, aliases,
\* other cases, a padded name and a name that is no alias
ColumnNames ==
    {<<"S", "y", "m", "b", "o", "l">>,
     <<"T", "i", "c", "k", "e", "r">>,
     <<"s", "y", "m", "b", "o", "l">>,
     <<" ", "S", "y", "m", "b", "o", "l">>,
     <<"Q", "u", "a", "n", "t", "i", "t", "y">>,
     <<"S", "h", "a", "r", "e", "s">>,
     <<"Q", "T", "Y">>,
     <<"A", "c", "c", "o", "u", "n", "t">>}

\* read_csv gives the columns of a frame distinct names
HeaderRows ==
    {h \in UNION {[1..n -> ColumnNames] : n \in 1..MaxColumns} :
        \A i, j \in DOMAIN h : h[i] = h[j] => i = j}

\* lines 227-229 of parse_portfolio_csv on the frame read_csv returned
NormalizeHeader ==
    /\ callpc = "ready"
    /\ callpc' = "returned"
    /\ ret' = Some(NormalizeColumns(StripColumns(arg)))
    /\ UNCHANGED <<arg, notCall>>

----------------------------------------------------------------------------
(* financials/portfolio_widgets.py: compute_correlation_matrix             *)
(* Closes are in 1/10000 dollar, returns in hundredths, correlations in    *)
(* 1/10000 (the four decimals of line 808).                                *)

max_holdings == 8       \* line 736: the default of the parameter

MaxCHoldings == 3       \* longest holdings list handed to the function

RECURSIVE Targets(_, _)
\* lines 748-756: the first max_holdings holdings that are not funds and
\* have a positive value
Targets(hs, acc) ==
    IF hs = << >> \/ Len(acc) >= max_holdings THEN acc
    ELSE LET h == Head(hs)
         IN  Targets(Tail(hs),
                     IF h.isFund \/ Truthy(h.sectorWeights) THEN acc
                     ELSE IF OrZero(h.currentValue) <= 0 THEN acc
                     ELSE Append(acc, h))

\* lines 759, 779
EmptyCorrelation == [symbols |-> << >>, matrix |-> << >>, highCorrelations |-> << >>]

\* lines 782-789: the return of each day whose previous close is positive
Returns(closes) ==
    LET days == SelectSeq([i \in 1..(Len(closes) - 1) |-> i + 1],
                          LAMBDA i : closes[i - 1] > 0)
    IN  [k \in DOMAIN days |->
            ((closes[days[k]] - closes[days[k] - 1]) * 100)
                \div closes[days[k] - 1]]

\* lines 792-794: every series cut to the shortest
MinLen(rets, symbols) ==
    CHOOSE n \in {Len(rets[symbols[i]]) : i \in DOMAIN symbols} :
        \A i \in DOMAIN symbols : n <= Len(rets[symbols[i]])

Aligned(rets, symbols) ==
    [sym \in DOMAIN rets |-> SubSeq(rets[sym], 1, MinLen(rets, symbols))]

Abs(x) == IF x < 0 THEN -x ELSE x

RECURSIVE GcdSeq(_)
GcdSeq(xs) == IF xs = << >> THEN 0 ELSE Gcd(Abs(Head(xs)), GcdSeq(Tail(xs)))

\* The deviations xs[i] - mean_x up to a common positive factor, which a
\* correlation does not depend on: n * xs[i] - sum(xs), divided by their
\* greatest common divisor
Deviations(xs) ==
    LET raw == [i \in DOMAIN xs |-> Len(xs) * xs[i] - SumSeq(xs)]
        g == GcdSeq(raw)
    IN  IF g = 0 THEN raw ELSE [i \in DOMAIN raw |-> raw[i] \div g]

ISqrt(p) == CHOOSE r \in 0..p : r * r <= p /\ p < (r + 1) * (r + 1)

\* lines 797-808.  The square root is whole for the series of the model.
Pearson(xs, ys) ==
    LET dx == Deviations(xs)
        dy == Deviations(ys)
        cov == SumSeq([i \in DOMAIN xs |-> dx[i] * dy[i]])
        varX == SumSeq([i \in DOMAIN xs |-> dx[i] * dx[i]])
        varY == SumSeq([i \in DOMAIN xs |-> dy[i] * dy[i]])
    IN  IF Len(xs) < 3 THEN 0
        ELSE IF varX = 0 \/ varY = 0 THEN 0
        ELSE RoundHalfEven(cov * 10000, ISqrt(varX * varY))

\* only the cell above the diagonal written
SetPairUpperOnly(matrix, i, j, corr) == [matrix EXCEPT ![i][j] = corr]

\* lines 819-820
SetPair(matrix, i, j, corr) == [matrix EXCEPT ![i][j] = corr, ![j][i] = corr]

\* lines 815-826: the body of the double loop at cell (i, j)
CellStep(st, i, j, symbols, rets) ==
    LET corr == Pearson(rets[symbols[i]], rets[symbols[j]])
    IN  IF i = j THEN [st EXCEPT !.matrix[i][j] = 10000]
        ELSE IF j > i
        THEN [matrix |-> SetPair(st.matrix, i, j, corr),
              high |-> IF Abs(corr) > 8000
                       THEN Append(st.high,
                                   [pair |-> symbols[i] \o "/" \o symbols[j],
                                    corr |-> corr])
                       ELSE st.high]
        ELSE st

RECURSIVE BuildFrom(_, _, _, _)
\* lines 813-814: the cells in row order, k counting the cells done
BuildFrom(st, k, symbols, rets) ==
    LET n == Len(symbols)
    IN  IF k = n * n THEN st
        ELSE BuildFrom(CellStep(st, (k \div n) + 1, (k % n) + 1, symbols, rets),
                       k + 1, symbols, rets)

AbsCorrKey(x) == Abs(x.corr)

\* lines 781-836
CorrelationResult(symbols, history) ==
    LET n == Len(symbols)
        present == {symbols[i] : i \in DOMAIN symbols}
        rets == Aligned([sym \in present |-> Returns(history[sym])], symbols)
        built == BuildFrom([matrix |-> [i \in 1..n |-> [j \in 1..n |-> 0]],
                            high |-> << >>], 0, symbols, rets)
    IN  [symbols |-> symbols, matrix |-> built.matrix,
         highCorrelations |-> SortedByReverse(built.high, AbsCorrKey)]

\* lines 777-779
SymbolsWithHistory(targets, history) ==
    LET kept == SelectSeq(targets, LAMBDA h : h.symbol \in DOMAIN history)
    IN  [i \in DOMAIN kept |-> kept[i].symbol]

\* What _fetch_ticker_history can give for a symbol: None, or closes that
\* are too few, flat, preceded by zero closes, or moving
CloseSeries ==
    {<<1000000, 1100000, 1100000, 990000>>,
     <<1000000, 1000000, 1000000, 1000000, 1000000>>,
     <<0, 0, 1000000, 1100000, 1100000>>,
     <<1000000, 1100000, 1100000, 990000, 990000>>,
     <<1000000, 1400000, 1820000, 1092000, 764400>>,
     <<1000000, 1120000, 1176000, 1034880, 983136>>,
     <<1000000, 900000, 900000, 990000, 990000>>}

HistoryResults == {None} \cup {Some(c) : c \in CloseSeries}

CorrKinds == {"stock", "fund", "zero"}

CHolding(i, kind) ==
    [symbol |-> "S" \o ToString(i),
     currentValue |-> IF kind = "zero" THEN Some(0) ELSE Some(1000),
     isFund |-> kind = "fund",
     sectorWeights |-> None]

CHoldingLists ==
    UNION {{[i \in 1..n |-> CHolding(i, kinds[i])] : kinds \in [1..n -> CorrKinds]} :
             n \in 1..MaxCHoldings}

InitCallVars == arg = << >> /\ callpc = "off" /\ ret = None /\ calls = << >>

InitCorrVars ==
    /\ cholds = << >> /\ cpc = "off" /\ cpending = {}
    /\ chistory = << >> /\ cexc = "" /\ cout = None

\* lines 747-766: the targets are chosen; with fewer than two the empty
\* result is returned, else one history task per target is submitted
CorrStart ==
    /\ cpc = "ready"
    /\ IF Len(Targets(cholds, << >>)) < 2
       THEN cpc' = "returned" /\ cout' = Some(EmptyCorrelation)
            /\ cpending' = {}
       ELSE cpc' = "fanout" /\ cout' = None
            /\ cpending' = {Targets(cholds, << >>)[i].symbol :
                              i \in DOMAIN Targets(cholds, << >>)}
    /\ UNCHANGED <<cholds, chistory, cexc, notCorr>>

\* lines 767-774: as_completed yields the task of sym, whose result res is
\* kept when it has at least five closes
CorrCollect(sym, res) ==
    /\ cpc = "fanout"
    /\ sym \in cpending
    /\ cpending' = cpending \ {sym}
    /\ chistory' = IF res # None /\ Len(res[1]) >= 5
                   THEN chistory @@ (sym :> res[1])
                   ELSE chistory
    /\ UNCHANGED <<cholds, cpc, cexc, cout, notCorr>>

\* line 767: as_completed(futures, timeout=30) raises TimeoutError while
\* tasks are unfinished; nothing in the function catches it
CorrTimeout ==
    /\ cpc = "fanout"
    /\ cpending # {}
    /\ cpending' = {}
    /\ cpc' = "raised"
    /\ cexc' = "TimeoutError"
    /\ UNCHANGED <<cholds, chistory, cout, notCorr>>

\* lines 777-836
CorrFinish ==
    /\ cpc = "fanout"
    /\ cpending = {}
    /\ cpc' = "returned"
    /\ cout' = LET symbols == SymbolsWithHistory(Targets(cholds, << >>), chistory)
               IN  IF Len(symbols) < 2 THEN Some(EmptyCorrelation)
                   ELSE Some(CorrelationResult(symbols, chistory))
    /\ UNCHANGED <<cholds, cpending, chistory, cexc, notCorr>>

NextCorr ==
    \/ CorrStart
    \/ \E sym \in cpending, res \in HistoryResults : CorrCollect(sym, res)
    \/ CorrTimeout
    \/ CorrFinish

----------------------------------------------------------------------------
(* financials/portfolio.py: build_holdings_from_manual                     *)
(* Shares are in hundredths of a share, money in cents.                    *)

MaxEntries == 3         \* longest list of manual entries

\* line 334: re.match(r"^[A-Z]{1,10}$", symbol)
TickerShaped(symbol) ==
    /\ Len(symbol) \in 1..10
    /\ \A i \in DOMAIN symbol : \E k \in DOMAIN Uppercase : Uppercase[k] = symbol[i]

\* lines 332-367: the holding of one entry, None when the entry is skipped
ManualRow(entry) ==
    LET symbol == Upper(Strip(entry.symbol))
        cps == IF entry.costPerShare # None /\ entry.costPerShare[1] < 0
               THEN None ELSE entry.costPerShare
    IN  IF symbol = << >> \/ ~TickerShaped(symbol) THEN None
        ELSE IF symbol \in SKIP_SYMBOLS THEN None
        ELSE IF entry.shares = None THEN None
        ELSE IF entry.shares[1] <= 0 THEN None
        ELSE Some([symbol |-> symbol, name |-> << >>,
                   quantity |-> entry.shares,
                   lastPrice |-> None, currentValue |-> 0,
                   costBasis |-> IF Truthy(cps)
                                 THEN Some(RoundHalfEven(cps[1] * entry.shares[1], 100))
                                 ELSE None,
                   costBasisPerShare |-> cps,
                   totalGainDollar |-> None, totalGainPct |-> None,
                   pctOfAccount |-> 0])

\* lines 376-388: a later entry of a symbol already seen
ManualMergeInto(m, h) ==
    LET total_qty == OrZero(m.quantity) + OrZero(h.quantity)
        total_cost == OrZero(m.costBasis) + OrZero(h.costBasis)
    IN  [m EXCEPT !.quantity = Some(total_qty),
                  !.costBasis = IF total_cost > 0 THEN Some(total_cost) ELSE None,
                  !.costBasisPerShare =
                      IF total_cost > 0 /\ total_qty > 0
                      THEN Some(RoundHalfEven(total_cost * 100, total_qty))
                      ELSE None]

RECURSIVE ManualMerge(_, _)
\* lines 370-388: merged is a dict, so it keeps the order of first sight
ManualMerge(raw, merged) ==
    IF raw = << >> THEN merged
    ELSE LET h == Head(raw)
         IN  ManualMerge(Tail(raw),
                IF \E i \in DOMAIN merged : merged[i].symbol = h.symbol
                THEN [i \in DOMAIN merged |->
                        IF merged[i].symbol = h.symbol
                        THEN ManualMergeInto(merged[i], h) ELSE merged[i]]
                ELSE Append(merged, h))

\* lines 321-390
BuildHoldingsFromManual(entries) ==
    LET rows == [i \in DOMAIN entries |-> ManualRow(entries[i])]
        kept == SelectSeq(rows, LAMBDA r : r # None)
    IN  ManualMerge([i \in DOMAIN kept |-> kept[i][1]], << >>)

ManualEntry(sym, shares, cps) == [symbol |-> sym, shares |-> shares, costPerShare |-> cps]

\* Entries of two tickers in the spellings a form sends, with and without a
\* cost, and entries the function skips
ManualEntries ==
    {ManualEntry(sym, Some(sh), cps) :
        sym \in {<<"A">>, <<" ", "a">>, <<"B">>},
        sh \in {100, 300},
        cps \in {None, Some(1000), Some(1300)}}
    \cup {ManualEntry(<<"A">>, Some(100), Some(0)),
          ManualEntry(<<"A">>, Some(100), Some(-500)),
          ManualEntry(<<"A">>, Some(0), Some(1000)),
          ManualEntry(<<"A">>, None, Some(1000)),
          ManualEntry(<<"A", "1">>, Some(100), Some(1000)),
          ManualEntry(<<"S", "P", "A", "X", "X">>, Some(100), Some(1000))}

ManualEntryLists ==
    UNION {[1..n -> ManualEntries] : n \in 0..MaxEntries}

\* One call of build_holdings_from_manual
BuildManual ==
    /\ callpc = "ready"
    /\ callpc' = "returned"
    /\ ret' = Some(BuildHoldingsFromManual(arg))
    /\ UNCHANGED <<arg, notCall>>

----------------------------------------------------------------------------
(* financials/portfolio_widgets.py: fetch_portfolio_performance            *)
(* Values are in cents, dates are day numbers (ISO date strings compare as *)
(* their days do), prices are whole, percentages in 1/100 percent.         *)

MaxPHoldings == 2       \* longest holdings list handed to the function

\* the close of the first date of the history instead of the latest one
\* that is not after the date
PriceBeforeFirst(hist, date) ==
    LET earlier == {i \in DOMAIN hist.dates : hist.dates[i] <= date}
    IN  IF earlier = {} THEN None ELSE Some(hist.closes[1])

\* lines 583-586: the close of the last listed date that is not after date
PriceBefore(hist, date) ==
    LET earlier == {i \in DOMAIN hist.dates : hist.dates[i] <= date}
    IN  IF earlier = {} THEN None
        ELSE Some(hist.closes[CHOOSE i \in earlier : \A j \in earlier : j <= i])

\* lines 562-590, as an exact fraction of cents
InterpolateValue(symbol, date, current_value, history_map) ==
    IF symbol \notin DOMAIN history_map THEN Rat(current_value, 1)
    ELSE LET hist == history_map[symbol]
             exact == {i \in DOMAIN hist.dates : hist.dates[i] = date}
         IN  IF hist.currentPrice <= 0 THEN Rat(current_value, 1)
             ELSE IF exact # {}
             THEN Rat(current_value
                        * hist.closes[CHOOSE i \in exact : \A j \in exact : i <= j],
                      hist.currentPrice)
             ELSE IF PriceBefore(hist, date) # None
             THEN Rat(current_value * PriceBefore(hist, date)[1], hist.currentPrice)
             ELSE Rat(current_value, 1)

\* lines 593-607
EmptyPerformance ==
    [dates |-> << >>, portfolioValues |-> << >>, startValue |-> 0, endValue |-> 0,
     periodReturn |-> 0, periodReturnDollar |-> 0, bestPerformer |-> None,
     worstPerformer |-> None, holdingReturns |-> << >>, marketClosed |-> FALSE]

\* sorted(all_dates), line 646
RECURSIVE SortedDates(_)
SortedDates(S) ==
    IF S = {} THEN << >>
    ELSE LET least == CHOOSE d \in S : \A e \in S : d <= e
         IN  <<least>> \o SortedDates(S \ {least})

RECURSIVE RatSum(_)
RatSum(q) == IF q = << >> THEN Rat(0, 1) ELSE RatAdd(Head(q), RatSum(Tail(q)))

\* lines 652-658
PortfolioValues(valid, all_dates, history_map) ==
    [d \in DOMAIN all_dates |->
        RatRound(RatSum([k \in DOMAIN valid |->
            InterpolateValue(valid[k].symbol, all_dates[d],
                             valid[k].currentValue[1], history_map)]))]

\* lines 667-688
HoldingReturn(h, history_map) ==
    LET cv == h.currentValue[1]
        has == h.symbol \in DOMAIN history_map
        hist == history_map[h.symbol]
    IN  [symbol |-> h.symbol,
         startValue |-> IF has /\ hist.currentPrice # 0
                        THEN RoundHalfEven(cv * hist.closes[1], hist.currentPrice)
                        ELSE cv,
         endValue |-> cv,
         returnPct |-> IF has /\ hist.closes[1] > 0
                       THEN RoundRatio(hist.closes[Len(hist.closes)] - hist.closes[1],
                                       hist.closes[1], 10000)
                       ELSE 0]

ReturnPctKey(x) == x.returnPct

\* lines 701-712: SPY scaled to the portfolio's start value and carried
\* forward over the portfolio's dates
RECURSIVE BenchmarkFrom(_, _, _, _)
BenchmarkFrom(all_dates, spy, last_spy, start_value) ==
    IF all_dates = << >> THEN << >>
    ELSE LET at == {i \in DOMAIN spy.dates : spy.dates[i] = Head(all_dates)}
             now == IF at = {} THEN last_spy
                    ELSE spy.closes[CHOOSE i \in at : \A j \in at : j <= i]
         IN  <<RoundHalfEven(now * start_value, spy.closes[1])>>
                 \o BenchmarkFrom(Tail(all_dates), spy, now, start_value)

\* lines 609-735 once the histories have come back: fetched gives the
\* history of each symbol (None for none), spy that of SPY
PerformanceResult(hs, fetched, spy) ==
    LET valid == SelectSeq(hs, LAMBDA h : OrZero(h.currentValue) > 0)
        found == {valid[i].symbol : i \in DOMAIN valid} \cap
                 {sym \in DOMAIN fetched : fetched[sym] # None}
        history_map == [sym \in found |-> fetched[sym][1]]
        all_dates == SortedDates(UNION {{history_map[sym].dates[i] :
                                           i \in DOMAIN history_map[sym].dates} :
                                        sym \in found})
        values == PortfolioValues(valid, all_dates, history_map)
        start_value == values[1]
        end_value == values[Len(values)]
        returns == SortedByReverse([i \in DOMAIN valid |->
                                      HoldingReturn(valid[i], history_map)],
                                   ReturnPctKey)
        bench == spy # None /\ spy[1].closes[1] > 0
    IN  IF valid = << >> \/ found = {} \/ Len(all_dates) < 2 THEN EmptyPerformance
        ELSE [dates |-> all_dates, portfolioValues |-> values,
              startValue |-> start_value, endValue |-> end_value,
              periodReturn |-> IF start_value # 0
                               THEN RoundRatio(end_value - start_value,
                                               start_value, 10000)
                               ELSE 0,
              periodReturnDollar |-> end_value - start_value,
              bestPerformer |-> Some(returns[1]),
              worstPerformer |-> Some(returns[Len(returns)]),
              holdingReturns |-> returns,
              marketClosed |-> FALSE,
              benchmarkValues |-> IF bench
                                  THEN BenchmarkFrom(all_dates, spy[1],
                                                     spy[1].closes[1], start_value)
                                  ELSE << >>,
              benchmarkReturn |-> IF bench
                                  THEN Some(RoundRatio(
                                         spy[1].closes[Len(spy[1].closes)]
                                           - spy[1].closes[1],
                                         spy[1].closes[1], 10000))
                                  ELSE None]

\* What _fetch_ticker_history returns (lines 545-555): the dates and closes
\* it found, the last close as currentPrice
History(dates, closes) ==
    [dates |-> dates, closes |-> closes, currentPrice |-> closes[Len(closes)]]

\* Histories of a holding: over the whole period, listed from the second
\* day, no longer traded on the last day, with a single day, or none
HoldingHistories ==
    {None,
     Some(History(<<1, 2, 3>>, <<100, 110, 120>>)),
     Some(History(<<2, 3>>, <<50, 40>>)),
     Some(History(<<1, 2>>, <<80, 100>>)),
     Some(History(<<3>>, <<10>>))}

SpyHistories ==
    {None,
     Some(History(<<1, 2, 3>>, <<400, 420, 441>>)),
     Some(History(<<2, 3>>, <<420, 441>>)),
     Some(History(<<1, 2, 3>>, <<0, 420, 441>>))}

PerformanceValues == {Some(0), Some(60000), Some(40000)}

PerformanceArgs ==
    UNION {[holdings : {[i \in 1..n |-> [symbol |-> "S" \o ToString(i),
                                         name |-> "n",
                                         currentValue |-> cvs[i]]] :
                           cvs \in [1..n -> PerformanceValues]},
            fetched : [{"S" \o ToString(i) : i \in 1..n} -> HoldingHistories],
            spy : SpyHistories, fn : {"performance"}] :
           n \in 1..MaxPHoldings}

\* The call returns once every history task has been collected
PerformanceReturn ==
    /\ callpc = "ready"
    /\ arg.fn = "performance"
    /\ callpc' = "returned"
    /\ ret' = Some(PerformanceResult(arg.holdings, arg.fetched, arg.spy))
    /\ UNCHANGED <<arg, notCall>>

\* line 632: as_completed(futures, timeout=30) raises TimeoutError while
\* tasks are unfinished; nothing in the function catches it
PerformanceTimeout ==
    /\ callpc = "ready"
    /\ arg.fn = "performance"
    /\ \E i \in DOMAIN arg.holdings : OrZero(arg.holdings[i].currentValue) > 0
    /\ callpc' = "raised"
    /\ ret' = None
    /\ UNCHANGED <<arg, notCall>>

NextPerformance == PerformanceReturn \/ PerformanceTimeout

----------------------------------------------------------------------------
(* financials/portfolio.py, financials/portfolio_widgets.py: the fetchers   *)
(* that go through the cache, one entity per call                           *)

MaxCalls == 3           \* how many fetches one behaviour follows

\* The values _fetch_esg_data and _fetch_ticker_history keep in the cache
\* are Python values that may be None, so they are stored as None or
\* Some(v).  cache.get then returns the stored value itself when the entry
\* is live, and None when there is no live entry.
CacheValue(c, key) == IF CacheLive(c, key) THEN c[key][1].value ELSE None

\* A dict of _fetch_esg_data is the set of its <<key, value>> items, so that
\* the empty dict {} is the empty set and differs from None.
EmptyDict == {}
EsgResult ==
    {<<"totalEsg", Some(2150)>>, <<"environmentScore", Some(320)>>,
     <<"socialScore", Some(1010)>>, <<"governanceScore", None>>,
     <<"esgPerformance", Some("AVG_PERF")>>, <<"controversyLevel", Some(2)>>,
     <<"flags", Some(<<"Alcohol">>)>>}

\* What ticker.sustainability does for the call: a frame with scores, no
\* frame (None or empty), or an exception
EsgOutcomes == {"data", "nodata", "error"}

\* What _fetch_esg_data stores and returns once it has called the provider
\* (lines 491-524): {} both when there is no data and when the call raised
EsgFetched(outcome) == IF outcome = "data" THEN EsgResult ELSE EmptyDict

\* What yf.Ticker(symbol).history does for the call
HistoryOutcomes == {"data", "nodata", "error"}
HistoryResult == History(<<1, 2>>, <<1000000, 1100000>>)

\* What _fetch_ticker_history stores and returns once it has called the
\* provider (lines 541-559): None both when there is no data and when the
\* call raised
HistoryFetched(outcome) ==
    IF outcome = "data" THEN Some(HistoryResult) ELSE None

\* What the provider does for a call of _enrich_one outside the pool
EnrichOutcomes == {"error", "stock", "fund"}

Call(fn, symbol, live, provider, result) ==
    [fn |-> fn, symbol |-> symbol, live |-> live, provider |-> provider,
     result |-> result]

\* _fetch_esg_data(symbol), lines 483-524
FetchEsgData(symbol, outcome) ==
    /\ Len(calls) < MaxCalls
    /\ LET key == EsgKey(symbol)
           cached == CacheValue(cache, key)
           afterGet == CacheAfterGet(cache, key)
       IN  IF cached # None
           THEN /\ cache' = afterGet
                /\ calls' = Append(calls,
                       Call("esg", symbol, TRUE, "none", cached))
           ELSE /\ cache' = CachePut(afterGet, key, Some(EsgFetched(outcome)))
                /\ calls' = Append(calls,
                       Call("esg", symbol, CacheLive(cache, key), outcome,
                            Some(EsgFetched(outcome))))
    /\ UNCHANGED notFetch

\* _fetch_ticker_history(symbol, period), lines 532-559
FetchTickerHistory(symbol, outcome) ==
    /\ Len(calls) < MaxCalls
    /\ LET key == HistoryKey(symbol, HistoryPeriod)
           cached == CacheValue(cache, key)
           afterGet == CacheAfterGet(cache, key)
       IN  IF cached # None
           THEN /\ cache' = afterGet
                /\ calls' = Append(calls,
                       Call("history", symbol, TRUE, "none", cached))
           ELSE /\ cache' = CachePut(afterGet, key, HistoryFetched(outcome))
                /\ calls' = Append(calls,
                       Call("history", symbol, CacheLive(cache, key), outcome,
                            HistoryFetched(outcome)))
    /\ UNCHANGED notFetch

\* _enrich_one(symbol), lines 461-517, called outside the pool
EnrichOne(symbol, p) ==
    /\ Len(calls) < MaxCalls
    /\ LET key == EnrichKey(symbol)
           cached == CacheGet(cache, key)
           afterGet == CacheAfterGet(cache, key)
       IN  IF cached # None
           THEN /\ cache' = afterGet
                /\ calls' = Append(calls,
                       Call("enrich", symbol, TRUE, "none", cached))
           ELSE /\ cache' = IF EnrichOneCaches(p)
                            THEN CachePut(afterGet, key, EnrichOneResult(p))
                            ELSE afterGet
                /\ calls' = Append(calls,
                       Call("enrich", symbol, CacheLive(cache, key), p,
                            Some(EnrichOneResult(p))))
    /\ UNCHANGED notFetch

NextFetch ==
    \/ \E s \in Symbols, o \in EsgOutcomes : FetchEsgData(s, o)
    \/ \E s \in Symbols, o \in HistoryOutcomes : FetchTickerHistory(s, o)
    \/ \E s \in Symbols, p \in EnrichOutcomes : EnrichOne(s, p)
    \/ \E k \in CacheKeys : CacheExpire(k)

----------------------------------------------------------------------------
(* financials/portfolio_widgets.py: fetch_peer_valuations and               *)
(* fetch_ethical_analysis.  Values are in whole dollars, P/E ratios whole,   *)
(* margins and growth in hundredths, ESG scores in hundredths.              *)

MaxWHoldings == 2       \* longest holdings list handed to either function

WidgetKinds == {"stock", "fund", "nokey"}
WidgetValues == {0, 1000, 3000}

\* A holding as the widget endpoints receive it: a stock, a fund, or a
\* stock whose industry is not known
WHolding(sym, kind, value) ==
    [symbol |-> sym, name |-> "n", currentValue |-> Some(value),
     pctOfAccount |-> Some(2500), isFund |-> kind = "fund",
     sectorWeights |-> IF kind = "fund"
                       THEN Some(<<[k |-> "Technology", w |-> 10000]>>)
                       ELSE None,
     industryKey |-> IF kind = "stock" THEN "semiconductors" ELSE "",
     industry |-> IF kind = "stock" THEN "Semiconductors" ELSE "Unknown"]

WHoldingLists ==
    UNION {{[i \in 1..n |-> WHolding(c[i][1], c[i][2], c[i][3])] :
               c \in [1..n -> Symbols \X WidgetKinds \X WidgetValues]} :
             n \in 1..MaxWHoldings}

max_peer_holdings == 3  \* line 375: the default of max_holdings

RECURSIVE PeerTargets(_, _)
\* lines 388-396: the first stocks with an industry, three at most
PeerTargets(hs, acc) ==
    IF hs = << >> \/ Len(acc) >= max_peer_holdings THEN acc
    ELSE LET h == Head(hs)
         IN  PeerTargets(Tail(hs),
                         IF h.isFund \/ Truthy(h.sectorWeights) THEN acc
                         ELSE IF h.industryKey = "" THEN acc
                         ELSE Append(acc, h))

Peer(sym, is_target, pe, margins, growth) ==
    [symbol |-> sym, is_target |-> is_target, trailingPE |-> pe,
     grossMargins |-> margins, revenueGrowth |-> growth]

\* What fetch_industry_peers does for a holding: it raises, returns no
\* peers, the holding among its peers, or peers without the holding
PeerOutcomes == {"raise", "none", "peers", "no_target"}

PeersOf(sym, outcome) ==
    LET others == <<Peer("P1", FALSE, Some(20), Some(40), Some(5)),
                    Peer("P2", FALSE, Some(30), None, None)>>
    IN  CASE outcome = "peers" ->
               <<Peer(sym, TRUE, Some(10), Some(50), None)>> \o others
          [] outcome = "no_target" -> others
          [] OTHER -> << >>

RECURSIVE JoinText(_, _)
\* sep.join(texts)
JoinText(texts, sep) ==
    IF texts = << >> THEN ""
    ELSE IF Len(texts) = 1 THEN texts[1]
    ELSE texts[1] \o sep \o JoinText(Tail(texts), sep)

\* the values of a metric that the peers have (a value of 0 counts as none)
PeerMetric(peers, field) ==
    LET have == SelectSeq(peers, LAMBDA p : Truthy(p[field]))
    IN  [i \in DOMAIN have |-> have[i][field][1]]

\* _compute_verdict(target, peers), lines 437-478; target is None or Some
ComputeVerdict(target, peers) ==
    IF target = None \/ peers = << >>
    THEN "Insufficient peer data for comparison."
    ELSE
    LET t == target[1]
        pes == PeerMetric(peers, "trailingPE")
        margins == PeerMetric(peers, "grossMargins")
        growths == PeerMetric(peers, "revenueGrowth")
        \* t < avg * 0.8 and t > avg * 1.2, with avg = sum / len
        onPe ==
          IF Truthy(t.trailingPE) /\ pes # << >>
          THEN <<IF t.trailingPE[1] * Len(pes) * 10 < SumSeq(pes) * 8
                 THEN "trades at a discount to peers on P/E"
                 ELSE IF t.trailingPE[1] * Len(pes) * 10 > SumSeq(pes) * 12
                 THEN "trades at a premium to peers on P/E"
                 ELSE "P/E roughly in line with peers">>
          ELSE << >>
        onMargin ==
          IF Truthy(t.grossMargins) /\ margins # << >>
          THEN <<IF t.grossMargins[1] * Len(margins) > SumSeq(margins)
                 THEN "higher gross margins than peer average"
                 ELSE "lower gross margins than peer average">>
          ELSE << >>
        onGrowth ==
          IF Truthy(t.revenueGrowth) /\ growths # << >>
          THEN <<IF t.revenueGrowth[1] * Len(growths) > SumSeq(growths)
                 THEN "faster revenue growth"
                 ELSE "slower revenue growth">>
          ELSE << >>
        points == onPe \o onMargin \o onGrowth
    IN  IF points # << >>
        THEN t.symbol \o " " \o JoinText(points, ", ") \o "."
        ELSE "Comparable to industry peers on key metrics."

\* lines 400-430: the entry of one target, None when fetch_industry_peers
\* raised or returned no peers
PeerEntry(h, outcome) ==
    LET peers == PeersOf(h.symbol, outcome)
        targets == SelectSeq(peers, LAMBDA q : q.is_target)
        peer_list == SelectSeq(peers, LAMBDA q : ~q.is_target)
        \* the last peer marked is_target is the one kept
        target_data == IF targets = << >> THEN None
                       ELSE Some(targets[Len(targets)])
    IN  IF outcome = "raise" \/ peers = << >> THEN None
        ELSE Some([symbol |-> h.symbol, name |-> h.name,
                   industry |-> h.industry, currentValue |-> h.currentValue,
                   pctOfAccount |-> h.pctOfAccount, target |-> target_data,
                   peers |-> SubSeq(peer_list, 1, Min(5, Len(peer_list))),
                   verdict |-> ComputeVerdict(target_data, peer_list)])

\* fetch_peer_valuations(holdings), lines 375-434
PeerValuationsResult(hs, outcomes) ==
    LET targets == PeerTargets(hs, << >>)
        entries == [i \in DOMAIN targets |->
                       PeerEntry(targets[i], outcomes[targets[i].symbol])]
        kept == SelectSeq(entries, LAMBDA e : e # None)
    IN  [i \in DOMAIN kept |-> kept[i][1]]

PeerArgs ==
    [fn : {"peers"}, holdings : WHoldingLists, peers : [Symbols -> PeerOutcomes]]

\* One call of fetch_peer_valuations.  The cache entries that
\* fetch_industry_peers keeps for itself (financials/data.py) are not
\* followed.
PeerValuations ==
    /\ callpc = "ready"
    /\ arg.fn = "peers"
    /\ callpc' = "returned"
    /\ ret' = Some(PeerValuationsResult(arg.holdings, arg.peers))
    /\ UNCHANGED <<arg, notCall>>

\* esg.get(key) on a dict of _fetch_esg_data
DictGet(d, key) ==
    IF \E item \in d : item[1] = key
    THEN (CHOOSE item \in d : item[1] = key)[2]
    ELSE None

\* lines 850-856
EsgStocks(hs) == SelectSeq(hs, LAMBDA h : ~(h.isFund \/ Truthy(h.sectorWeights)))
SkippedFunds(hs) ==
    LET funds == SelectSeq(hs, LAMBDA h : h.isFund \/ Truthy(h.sectorWeights))
    IN  [i \in DOMAIN funds |-> funds[i].symbol]

\* What _fetch_esg_data(sym) returns when the provider would do outcome
EsgServed(c, sym, outcome) ==
    IF CacheValue(c, EsgKey(sym)) # None THEN CacheValue(c, EsgKey(sym))[1]
    ELSE EsgFetched(outcome)

\* The cache once the tasks of the pool (lines 860-867) have all run
RECURSIVE CacheAfterEsg(_, _, _)
CacheAfterEsg(c, stocks, outcomes) ==
    IF stocks = << >> THEN c
    ELSE LET sym == Head(stocks).symbol
             key == EsgKey(sym)
         IN  CacheAfterEsg(
                 IF CacheValue(c, key) # None THEN c
                 ELSE CachePut(CacheAfterGet(c, key), key,
                               Some(EsgFetched(outcomes[sym]))),
                 Tail(stocks), outcomes)

\* lines 883-897
EsgEntry(h, esg) ==
    [symbol |-> h.symbol, name |-> h.name,
     currentValue |-> OrZero(h.currentValue),
     pctOfAccount |-> h.pctOfAccount,
     totalEsg |-> DictGet(esg, "totalEsg"),
     environmentScore |-> DictGet(esg, "environmentScore"),
     socialScore |-> DictGet(esg, "socialScore"),
     governanceScore |-> DictGet(esg, "governanceScore"),
     esgPerformance |-> DictGet(esg, "esgPerformance"),
     controversyLevel |-> DictGet(esg, "controversyLevel"),
     flags |-> IF DictGet(esg, "flags") = None THEN << >>
               ELSE DictGet(esg, "flags")[1]]

TotalEsgKey(e) == e.totalEsg[1]
\* the place of a symbol in the order of str
SymbolKey(e) == IF e.symbol = "AAA" THEN 1 ELSE 2
CategoryValueKey(cat) == cat.value

\* lines 900-909: score * value summed over the covered entries that have
\* the score
WeightedScore(covered, field) ==
    SumSeq([i \in DOMAIN covered |->
               IF covered[i][field] = None THEN 0
               ELSE covered[i][field][1] * covered[i].currentValue])

RECURSIVE AddFlags(_, _, _)
\* lines 935-939 for one entry: its flags entered one after the other
AddFlags(cats, e, flags) ==
    IF flags = << >> THEN cats
    ELSE LET flag == Head(flags)
             known == \E i \in DOMAIN cats : cats[i].category = flag
             base == IF known THEN cats
                     ELSE Append(cats, [category |-> flag, symbols |-> << >>,
                                        value |-> 0, pct |-> 0])
         IN  AddFlags([i \in DOMAIN base |->
                          IF base[i].category = flag
                          THEN [base[i] EXCEPT
                                  !.symbols = Append(@, e.symbol),
                                  !.value = @ + e.currentValue]
                          ELSE base[i]],
                      e, Tail(flags))

RECURSIVE Controversies(_, _)
\* lines 933-939
Controversies(entries, cats) ==
    IF entries = << >> THEN cats
    ELSE Controversies(Tail(entries),
                       AddFlags(cats, Head(entries), Head(entries).flags))

\* fetch_ethical_analysis(holdings), lines 869-959, from esg_map.  Scores
\* are in tenths, pct in tenths of a percent.
EthicalResult(hs, esg_map) ==
    LET stocks == EsgStocks(hs)
        entries == [i \in DOMAIN stocks |->
                       EsgEntry(stocks[i], esg_map[stocks[i].symbol])]
        counted == SelectSeq(entries,
                       LAMBDA e : e.totalEsg # None /\ e.currentValue > 0)
        covered_value == SumSeq([i \in DOMAIN counted |-> counted[i].currentValue])
        score(field) ==
            IF covered_value > 0
            THEN Some(RoundHalfEven(WeightedScore(counted, field),
                                    covered_value * 10))
            ELSE None
        covered == SelectSeq(entries, LAMBDA e : e.totalEsg # None)
        uncovered == SelectSeq(entries, LAMBDA e : e.totalEsg = None)
        holdings_esg == SortedByReverse(covered, TotalEsgKey)
                          \o SortedBy(uncovered, SymbolKey)
        total == SumSeq([i \in DOMAIN hs |-> hs[i].currentValue[1]])
        total_portfolio_value == IF total = 0 THEN 1 ELSE total
        cats == Controversies(holdings_esg, << >>)
        withPct == [i \in DOMAIN cats |->
                       [cats[i] EXCEPT !.pct =
                           RoundRatio(cats[i].value, total_portfolio_value, 1000)]]
    IN  [portfolioEsg |-> score("totalEsg"),
         portfolioE |-> score("environmentScore"),
         portfolioS |-> score("socialScore"),
         portfolioG |-> score("governanceScore"),
         holdingsEsg |-> holdings_esg,
         controversies |-> SortedByReverse(withPct, CategoryValueKey),
         coveredCount |-> Len(counted),
         totalCount |-> Len(stocks),
         skippedFunds |-> SkippedFunds(hs)]

EthicalArgs ==
    [fn : {"ethical"}, holdings : WHoldingLists, esg : [Symbols -> EsgOutcomes]]

\* One call of fetch_ethical_analysis whose tasks are all collected in time
EthicalReturn ==
    /\ callpc = "ready"
    /\ arg.fn = "ethical"
    /\ callpc' = "returned"
    /\ cache' = CacheAfterEsg(cache, EsgStocks(arg.holdings), arg.esg)
    /\ ret' = Some(EthicalResult(arg.holdings,
                     [sym \in Symbols |-> EsgServed(cache, sym, arg.esg[sym])]))
    /\ UNCHANGED <<arg, calls, enrichVars, heap, momVars, newsVars, anVars,
                   parseVars, corrVars>>

\* line 863: as_completed(futures, timeout=30) raises TimeoutError while
\* tasks are unfinished; nothing in the function catches it.  The pool is
\* left only when its tasks have run.
EthicalTimeout ==
    /\ callpc = "ready"
    /\ arg.fn = "ethical"
    /\ EsgStocks(arg.holdings) # << >>
    /\ callpc' = "raised"
    /\ cache' = CacheAfterEsg(cache, EsgStocks(arg.holdings), arg.esg)
    /\ ret' = None
    /\ UNCHANGED <<arg, calls, enrichVars, heap, momVars, newsVars, anVars,
                   parseVars, corrVars>>

----------------------------------------------------------------------------
(* Specifications                                                          *)

EmptyCache == [k \in CacheKeys |-> None]

EnrichOff ==
    /\ clock = 0 /\ holdings = << >> /\ pc = "off"
    /\ futures = [s \in Symbols |-> NoFuture]
    /\ results = EmptyResults /\ yielded = {} /\ exc = ""

\* One call of enrich_holdings on an empty cache
InitEnrichment ==
    /\ cache = EmptyCache
    /\ InitEnrich
    /\ InitMomentumVars
    /\ InitNewsVars
    /\ InitAnalyzeVars
    /\ InitParseVars
    /\ InitCorrVars
    /\ InitCallVars

SpecEnrich == InitEnrichment /\ [][NextEnrich]_vars

\* Two callers of fetch_sector_momentum sharing the process-wide cache
InitMomentum ==
    /\ cache = EmptyCache
    /\ InitMomentumVars
    /\ EnrichOff
    /\ InitNewsVars
    /\ InitAnalyzeVars
    /\ InitParseVars
    /\ InitCorrVars
    /\ InitCallVars

SpecMomentum == InitMomentum /\ [][NextMomentum]_vars

\* One call of fetch_holdings_news, for any holdings and any headlines
InitNews ==
    /\ cache = EmptyCache
    /\ EnrichOff
    /\ InitMomentumVars
    /\ nholdings \in NewsHoldingLists
    /\ newsOf \in [Symbols -> NewsLists]
    /\ npc = "idle"
    /\ npending = {}
    /\ allNews = << >>
    /\ newsOut = << >>
    /\ InitAnalyzeVars
    /\ InitParseVars
    /\ InitCorrVars
    /\ InitCallVars

SpecNews == InitNews /\ [][NextNews]_vars

\* One call of analyze_portfolio on parsed and enriched holdings
InitAnalyze ==
    /\ cache = EmptyCache
    /\ EnrichOff
    /\ InitMomentumVars
    /\ InitNewsVars
    /\ aholdings \in AHoldingLists
    /\ apc = "ready"
    /\ apending = {}
    /\ aopps = << >>
    /\ aexc = ""
    /\ aout = None
    /\ InitParseVars
    /\ InitCorrVars
    /\ InitCallVars

SpecAnalyze == InitAnalyze /\ [][NextAnalyze]_vars

\* One call of analyze_portfolio on holdings at the edges of its thresholds
InitBoundary ==
    /\ cache = EmptyCache
    /\ EnrichOff
    /\ InitMomentumVars
    /\ InitNewsVars
    /\ aholdings \in BHoldingLists
    /\ apc = "ready"
    /\ apending = {}
    /\ aopps = << >>
    /\ aexc = ""
    /\ aout = None
    /\ InitParseVars
    /\ InitCorrVars
    /\ InitCallVars

SpecBoundary == InitBoundary /\ [][NextAnalyze]_vars

\* One call of compute_correlation_matrix
InitCorr ==
    /\ cache = EmptyCache
    /\ EnrichOff
    /\ InitMomentumVars
    /\ InitNewsVars
    /\ InitAnalyzeVars
    /\ InitParseVars
    /\ cholds \in CHoldingLists
    /\ cpc = "ready"
    /\ cpending = {}
    /\ chistory = << >>
    /\ cexc = ""
    /\ cout = None
    /\ InitCallVars

SpecCorr == InitCorr /\ [][NextCorr]_vars

\* Nothing else is running while a single function is called
Idle ==
    /\ cache = EmptyCache
    /\ EnrichOff
    /\ InitMomentumVars
    /\ InitNewsVars
    /\ InitAnalyzeVars
    /\ InitParseVars
    /\ InitCorrVars

\* One call of build_holdings_from_manual
InitManual ==
    /\ Idle
    /\ arg \in ManualEntryLists
    /\ callpc = "ready"
    /\ ret = None
    /\ calls = << >>

NextManual == BuildManual

SpecManual == InitManual /\ [][NextManual]_vars

\* One call of fetch_portfolio_performance
InitPerformance ==
    /\ Idle
    /\ arg \in PerformanceArgs
    /\ callpc = "ready"
    /\ ret = None
    /\ calls = << >>

SpecPerformance == InitPerformance /\ [][NextPerformance]_vars

\* Fetches of single entities, one after the other, with time passing
InitFetch == Idle /\ InitCallVars
SpecFetch == InitFetch /\ [][NextFetch]_vars

\* One call of parse_portfolio_csv on an uploaded file
InitParse ==
    /\ cache = EmptyCache
    /\ EnrichOff
    /\ InitMomentumVars
    /\ InitNewsVars
    /\ InitAnalyzeVars
    /\ pfile \in Files
    /\ ppc = "ready"
    /\ pexc = ""
    /\ pout = << >>
    /\ InitCorrVars
    /\ InitCallVars

NextParse == ParsePortfolioCsv

SpecParse == InitParse /\ [][NextParse]_vars

\* One call of parse_portfolio_csv on a file of many positions
InitParseMany ==
    /\ cache = EmptyCache
    /\ EnrichOff
    /\ InitMomentumVars
    /\ InitNewsVars
    /\ InitAnalyzeVars
    /\ pfile \in EqualPositionFiles
    /\ ppc = "ready"
    /\ pexc = ""
    /\ pout = << >>
    /\ InitCorrVars
    /\ InitCallVars

SpecParseMany == InitParseMany /\ [][NextParse]_vars

\* One call of fetch_peer_valuations, one of fetch_ethical_analysis
InitPeers ==
    /\ Idle
    /\ arg \in PeerArgs
    /\ callpc = "ready"
    /\ ret = None
    /\ calls = << >>

InitEthical ==
    /\ Idle
    /\ arg \in EthicalArgs
    /\ callpc = "ready"
    /\ ret = None
    /\ calls = << >>

\* One call of analyze_portfolio on holdings of equal and unequal values
InitSorting ==
    /\ cache = EmptyCache
    /\ EnrichOff
    /\ InitMomentumVars
    /\ InitNewsVars
    /\ aholdings \in SortHoldingLists
    /\ apc = "ready"
    /\ apending = {}
    /\ aopps = << >>
    /\ aexc = ""
    /\ aout = None
    /\ InitParseVars
    /\ InitCorrVars
    /\ InitCallVars

\* One call of analyze_portfolio or of one of the widget functions that
\* are handed the holdings
InitHoldingsCall ==
    \/ InitAnalyze
    \/ InitSorting
    \/ InitNews
    \/ InitCorr
    \/ InitPerformance
    \/ InitPeers
    \/ InitEthical

NextHoldingsCall ==
    \/ NextAnalyze
    \/ NextNews
    \/ NextCorr
    \/ NextPerformance
    \/ PeerValuations
    \/ EthicalReturn
    \/ EthicalTimeout

SpecHoldingsCall == InitHoldingsCall /\ [][NextHoldingsCall]_vars

\* The header of an uploaded file is normalized
InitHeader ==
    /\ Idle
    /\ arg \in HeaderRows
    /\ callpc = "ready"
    /\ ret = None
    /\ calls = << >>

NextHeader == NormalizeHeader

SpecHeader == InitHeader /\ [][NextHeader]_vars

\* One call of parse_portfolio_csv on a file with blank lines
InitParseBlank ==
    /\ cache = EmptyCache
    /\ EnrichOff
    /\ InitMomentumVars
    /\ InitNewsVars
    /\ InitAnalyzeVars
    /\ pfile \in BlankLineFiles
    /\ ppc = "ready"
    /\ pexc = ""
    /\ pout = << >>
    /\ InitCorrVars
    /\ InitCallVars

SpecParseBlank == InitParseBlank /\ [][NextParse]_vars

----------------------------------------------------------------------------
(* Claims about enrich_holdings                                            *)

CallOver == pc \in {"returned", "raised"}
ProviderOk == {"stock", "fund", "fund_empty"}
FailingSymbols == {s \in SymbolsOf(holdings) : futures[s].prov = "error"}
OkSymbols == {s \in SymbolsOf(holdings) : futures[s].prov \in ProviderOk}
AllInTime == \A s \in SymbolsOf(holdings) : futures[s].finishedAt <= BATCH_TIMEOUT

\* The record the provider data of symbol s amounts to
FetchedRecord(s) ==
    EnrichmentOf(ProviderInfo(futures[s].prov), ProviderFunds(futures[s].prov))

\* C1: when the provider raised for some symbol and answered for all the
\* others (every task ending before the batch deadline), enrich_holdings
\* returns normally, the holdings of the failing symbol carry exactly the
\* fallback record and the holdings of every other symbol carry that symbol's
\* fetched record.
C1_ErrorAbsorbed ==
    (/\ CallOver
     /\ FailingSymbols # {}
     /\ FailingSymbols \cup OkSymbols = SymbolsOf(holdings)
     /\ AllInTime)
    => /\ pc = "returned"
       /\ \A i \in DOMAIN holdings :
            LET s == holdings[i].symbol
            IN  holdings[i].enr =
                  Some(IF s \in FailingSymbols THEN ENRICHMENT_FALLBACK
                       ELSE FetchedRecord(s))

C1_Witness ==
    /\ pc = "returned"
    /\ AllInTime
    /\ FailingSymbols # {} /\ OkSymbols # {}
    /\ FailingSymbols \cup OkSymbols = SymbolsOf(holdings)

\* Symbols whose task had not completed when the batch deadline expired
LateSymbols ==
    {s \in SymbolsOf(holdings) : futures[s].finishedAt > BATCH_TIMEOUT}

\* C2: when the batch deadline expired with a task still running,
\* enrich_holdings returns normally, the holdings of the unfinished symbols
\* carry the fallback record and the others their task's record.
C2_DeadlineAbsorbed ==
    (CallOver /\ LateSymbols # {})
    => /\ pc = "returned"
       /\ \A i \in DOMAIN holdings :
            LET s == holdings[i].symbol
            IN  holdings[i].enr =
                  IF s \in LateSymbols THEN Some(ENRICHMENT_FALLBACK)
                  ELSE futures[s].value

\* C3: once the batch deadline has passed, the thread in enrich_holdings is
\* never blocked: it has returned (or raised) or it can take its next step,
\* whatever the worker tasks are doing.
C3_CallerNotBlocked ==
    (clock > BATCH_TIMEOUT /\ pc \notin {"idle", "returned", "raised"})
    => ENABLED CallerStep

\* C4: a symbol whose task ran longer than the per-task timeout and ended
\* before the batch deadline is treated as failed: its holdings carry the
\* fallback record.
C4_SlowTaskIsFailed ==
    pc = "returned" =>
      \A i \in DOMAIN holdings :
        LET f == futures[holdings[i].symbol]
        IN  (f.finishedAt - f.startedAt > TASK_TIMEOUT
             /\ f.finishedAt < BATCH_TIMEOUT)
            => holdings[i].enr = Some(ENRICHMENT_FALLBACK)

----------------------------------------------------------------------------
(* Claims about fetch_sector_momentum and the cache                        *)

\* The weight caller c asked for on entry r
OwnWeight(c, r) == Some(SectorsGet(PortfolioSectors(c), r.sector))

\* C8: every entry of the list a caller of fetch_sector_momentum was given
\* carries, whenever that caller reads it, the portfolioWeight of the
\* caller's own portfolio_sectors.
C8_OwnWeights ==
    \A c \in Callers :
        mpc[c] = "returned" =>
            \A i \in 1..Len(heap[mref[c]]) :
                heap[mref[c]][i].portfolioWeight = OwnWeight(c, heap[mref[c]][i])

\* C9: the value under a cache key changes only through a put on that key:
\* a step that leaves the entry of "sector_momentum:all" naming the same
\* list leaves the content of that list as it was.
C9_CacheImmutable ==
    [][(RefOf(cache) # 0 /\ RefOf(cache') = RefOf(cache))
         => heap'[RefOf(cache)] = heap[RefOf(cache)]]_vars

----------------------------------------------------------------------------
(* Claims about the order of completion                                    *)

RECURSIVE GatherInOrder(_)
\* all_news when the tasks complete in the order of the sequence syms
GatherInOrder(syms) ==
    IF syms = << >> THEN << >>
    ELSE Tagged(newsOf[Head(syms)], Head(syms)) \o GatherInOrder(Tail(syms))

\* C7: given the per-task results, the output of a fan-out is the same for
\* every order of completion: what fetch_holdings_news returns is what it
\* returns when the tasks complete in the order they were submitted.
C7_OrderIndependent ==
    npc = "returned" => newsOut = NewsFinal(GatherInOrder(TopSymbols(nholdings)))

\* C5: a call of analyze_portfolio on a non-empty list of holdings whose
\* gap fetches all came back ends by returning a dict with the sixteen
\* keys; it raises nothing, whatever enrichment the holdings carry.
C5_NeverRaises ==
    (apc \in {"returned", "raised"} /\ aexc # "TimeoutError")
        => (apc = "returned" /\ DOMAIN aout[1] = ResultKeys)

\* C6: whenever a health score is returned, each of the four sub-scores is
\* in [0,25] and the total is in [0,100].
C6_ScoreBounds ==
    apc = "returned" =>
        /\ aout[1].healthScore.diversification \in 0..25
        /\ aout[1].healthScore.concentration \in 0..25
        /\ aout[1].healthScore.sentiment \in 0..25
        /\ aout[1].healthScore.costHealth \in 0..25
        /\ aout[1].healthScore.total \in 0..100

NonFiniteInHoldings(r) ==
    \E i \in DOMAIN r.holdings, f \in NumericFields :
        IsNonFinite(r.holdings[i].enr[f])

NonFiniteInDividends(r) ==
    \/ IsNonFinite(r.dividends.totalAnnual)
    \/ IsNonFinite(r.dividends.totalMonthly)
    \/ IsNonFinite(r.dividends.weightedYield)
    \/ \E i \in DOMAIN r.dividends.holdings :
          \/ IsNonFinite(r.dividends.holdings[i].dividendYield)
          \/ IsNonFinite(r.dividends.holdings[i].annualIncome)
          \/ IsNonFinite(r.dividends.holdings[i].monthlyIncome)

NonFiniteInWidgetMeta(r) ==
    \E i \in DOMAIN r.widgetMeta.holdings :
        \E f \in NumericFields \cap DOMAIN r.widgetMeta.holdings[i] :
            IsNonFinite(r.widgetMeta.holdings[i][f])

\* C10: the dict analyze_portfolio returns holds no NaN and no infinity,
\* in its holdings, its dividends or its widgetMeta, also when the provider
\* gave NaN or infinite figures for a holding.
C10_NoNonFinite ==
    apc = "returned" =>
        /\ ~NonFiniteInHoldings(aout[1])
        /\ ~NonFiniteInDividends(aout[1])
        /\ ~NonFiniteInWidgetMeta(aout[1])

\* _sanitize_for_json does its part: widgetMeta is free of NaN and infinity
WidgetMetaSanitized == apc = "returned" => ~NonFiniteInWidgetMeta(aout[1])

\* The rows of the file the parser walks over, and the holdings it makes of
\* them before the merge
DataRows == IF CleanLines(pfile) = << >> THEN << >> ELSE Tail(CleanLines(pfile))
KeptRows == ParseRows(DataRows)
KeptOf(sym) == SelectSeq(KeptRows, LAMBDA h : h.symbol = sym)
SumOf(hs, field) == SumSeq([k \in DOMAIN hs |-> OrZero(hs[k][field])])

\* C11: parse_portfolio_csv returns exactly one holding per symbol of the
\* kept rows; a holding made of several rows has the sums of their
\* quantity, currentValue, costBasis and totalGainDollar, and the name and
\* lastPrice of the first of them.
C11_OnePerSymbol ==
    ppc = "returned" =>
        /\ \A i, j \in DOMAIN pout : pout[i].symbol = pout[j].symbol => i = j
        /\ {pout[i].symbol : i \in DOMAIN pout}
             = {KeptRows[k].symbol : k \in DOMAIN KeptRows}
        /\ \A i \in DOMAIN pout :
              LET rows == KeptOf(pout[i].symbol)
              IN  /\ pout[i].name = rows[1].name
                  /\ pout[i].lastPrice = rows[1].lastPrice
                  /\ Len(rows) = 1 =>
                        /\ pout[i].quantity = rows[1].quantity
                        /\ pout[i].currentValue = rows[1].currentValue
                        /\ pout[i].costBasis = rows[1].costBasis
                        /\ pout[i].totalGainDollar = rows[1].totalGainDollar
                  /\ Len(rows) > 1 =>
                        /\ pout[i].quantity = Some(SumOf(rows, "quantity"))
                        /\ pout[i].currentValue = Some(SumOf(rows, "currentValue"))
                        /\ pout[i].costBasis = Some(SumOf(rows, "costBasis"))
                        /\ pout[i].totalGainDollar
                             = Some(SumOf(rows, "totalGainDollar"))

\* a returned holding made of two rows that differ in name and lastPrice
C11_Witness ==
    /\ ppc = "returned"
    /\ \E i \in DOMAIN pout :
          /\ Len(KeptOf(pout[i].symbol)) >= 2
          /\ KeptOf(pout[i].symbol)[1].name # KeptOf(pout[i].symbol)[2].name
          /\ KeptOf(pout[i].symbol)[1].lastPrice
               # KeptOf(pout[i].symbol)[2].lastPrice

\* C12: every holding parse_portfolio_csv returns has a currentValue that
\* is not null and is at least 0.
C12_ValueNonNegative ==
    ppc = "returned" =>
        \A i \in DOMAIN pout :
            pout[i].currentValue # None /\ pout[i].currentValue[1] >= 0

\* C13: when the total value of the returned holdings is above 0, their
\* pctOfAccount sum to 100 within 0.1 (in hundredths of a percent: to
\* 10000 within 10).
C13_PctSum ==
    (ppc = "returned" /\ SumOf(pout, "currentValue") > 0) =>
        /\ SumOf(pout, "pctOfAccount") >= 10000 - 10
        /\ SumOf(pout, "pctOfAccount") <= 10000 + 10

\* C14: on a file without any text (no line at all, or blank lines only)
\* parse_portfolio_csv returns the empty list and raises nothing.
C14_EmptyFile ==
    (ppc # "ready" /\ \A i \in DOMAIN pfile : pfile[i].kind = "blank") =>
        (ppc = "returned" /\ pout = << >>)

HasStar(row) == Contains(row.symbol, <<"*">>)
OnlyRowsOf(sym, Case(_)) ==
    \A k \in DOMAIN DataRows :
        CleanSymbol(DataRows[k].symbol) = sym => Case(DataRows[k])

\* C15: a row whose symbol cell contains an asterisk produces no holding:
\* a symbol that only such rows carry is not among the returned holdings.
C15_StarSkipped ==
    ppc = "returned" =>
        \A i \in DOMAIN pout : ~OnlyRowsOf(pout[i].symbol, HasStar)

ZeroRow(row) ==
    CleanMoney(row.currentValue) = Some(0) /\ CleanMoney(row.quantity) = Some(0)

\* C16: a row whose Current Value and Quantity both parse to 0 produces no
\* holding: a symbol that only such rows carry is not among the returned
\* holdings.
C16_ZeroDropped ==
    ppc = "returned" =>
        \A i \in DOMAIN pout : ~OnlyRowsOf(pout[i].symbol, ZeroRow)

\* What one holding puts into the bucket of sector sec, in 1/10000 dollar:
\* a fund with sector weights its weighted share, any other holding its
\* whole value when sec is its sector
WeightOn(weights, sec) ==
    SumSeq([i \in DOMAIN weights |->
              IF weights[i].k = sec THEN weights[i].w ELSE 0])

SingleSector(h) ==
    IF h.enr.sector \in {"", "Fund/ETF"} THEN "Unknown" ELSE h.enr.sector

ShareIn(h, sec) ==
    IF IsLookThrough(h) THEN h.currentValue * WeightOn(h.enr.sectorWeights[1], sec)
    ELSE IF SingleSector(h) = sec THEN h.currentValue * 10000
    ELSE 0

WeightsSumToOne(hs) ==
    \A i \in DOMAIN hs :
        IsLookThrough(hs[i]) =>
            SumSeq([j \in DOMAIN hs[i].enr.sectorWeights[1] |->
                      hs[i].enr.sectorWeights[1][j].w]) = 10000

\* C17: in a returned analysis the value of every bySector bucket is the sum
\* of weight x currentValue over the funds that carry sector weights plus
\* the full currentValue of every other holding of that sector; when every
\* fund's weights sum to 1, the bucket values sum to totalValue.
C17_SectorLookThrough ==
    apc = "returned" =>
        LET by == aout[1].bySector
        IN  /\ \A i \in DOMAIN by :
                  by[i].value = SumSeq([k \in DOMAIN aholdings |->
                                          ShareIn(aholdings[k], by[i].sector)])
            /\ WeightsSumToOne(aholdings) =>
                  SumSeq([i \in DOMAIN by |-> by[i].value])
                      = aout[1].totalValue * 10000

\* a returned analysis of a fund with sector weights next to a stock
C17_Witness ==
    /\ apc = "returned"
    /\ \E i \in DOMAIN aholdings : IsLookThrough(aholdings[i])
    /\ \E i \in DOMAIN aholdings : ~IsLookThrough(aholdings[i])
    /\ Len(aout[1].bySector) >= 3

\* The share of a holding against its limit, multiplied out: pctOfAccount
\* (hundredths of a percent) when the holding has one, else
\* currentValue / totalValue x 100
OverLimit(h, totalValue) ==
    LET limit == IF IsFundHolding(h) THEN 30 ELSE 15
    IN  IF h.pctOfAccount # None THEN h.pctOfAccount[1] > limit * 100
        ELSE h.currentValue * 100 > limit * totalValue

Listed(entries, h) == \E k \in DOMAIN entries : entries[k].symbol = h.symbol

\* C18: a returned analysis lists a holding in concentration if and only if
\* its share of the portfolio is strictly greater than its threshold, 15
\* percent for a non-fund holding and 30 percent for a fund; a holding
\* exactly at its threshold is not listed, and none is listed twice.
C18_Concentration ==
    apc = "returned" =>
        /\ \A i \in DOMAIN aholdings :
              Listed(aout[1].concentration, aholdings[i])
                  <=> OverLimit(aholdings[i], aout[1].totalValue)
        /\ Len(aout[1].concentration)
              = Cardinality({i \in DOMAIN aholdings :
                               OverLimit(aholdings[i], aout[1].totalValue)})

\* a stock at exactly 15 percent is left out next to one that is listed
C18_Witness ==
    /\ apc = "returned"
    /\ Len(aout[1].concentration) = 1
    /\ \E i \in DOMAIN aholdings :
          /\ ~IsFundHolding(aholdings[i])
          /\ aholdings[i].currentValue * 100 = 15 * aout[1].totalValue
          /\ ~Listed(aout[1].concentration, aholdings[i])

\* A loss of at least 100 dollars and at least 5 percent of a positive cost
LosesEnough(h) ==
    /\ h.costBasis # None
    /\ h.costBasis[1] > 0
    /\ h.costBasis[1] - h.currentValue >= 100
    /\ (h.costBasis[1] - h.currentValue) * 100 >= 5 * h.costBasis[1]

\* C19: a returned analysis lists a holding in taxLossCandidates if and only
\* if it has a costBasis greater than 0 and its currentValue is below
\* costBasis by at least 100 dollars and by at least 5 percent of costBasis;
\* each candidate's estTaxSavings is 0.24 x the absolute loss, and the
\* candidates run from the largest loss to the smallest.
C19_TaxLoss ==
    apc = "returned" =>
        LET t == aout[1].taxLossCandidates
        IN  /\ \A i \in DOMAIN aholdings :
                  Listed(t, aholdings[i]) <=> LosesEnough(aholdings[i])
            /\ Len(t) = Cardinality({i \in DOMAIN aholdings :
                                       LosesEnough(aholdings[i])})
            /\ \A k \in DOMAIN t : \A i \in DOMAIN aholdings :
                  aholdings[i].symbol = t[k].symbol =>
                      t[k].estTaxSavings
                          = 24 * (aholdings[i].costBasis[1]
                                    - aholdings[i].currentValue)
            /\ \A k \in DOMAIN t : \A l \in DOMAIN t :
                  k < l => -t[k].unrealizedLoss >= -t[l].unrealizedLoss

\* two candidates, the one of smaller value and larger loss sorted first
C19_Witness ==
    /\ apc = "returned"
    /\ Len(aout[1].taxLossCandidates) = 2
    /\ Len(aholdings) = 2
    /\ aout[1].taxLossCandidates[1].symbol = aholdings[2].symbol
    /\ aout[1].taxLossCandidates[1].unrealizedLoss
          < aout[1].taxLossCandidates[2].unrealizedLoss

\* The cells above the diagonal whose correlation is high
HighCells(matrix) ==
    {c \in (DOMAIN matrix) \X (DOMAIN matrix) :
        c[1] < c[2] /\ Abs(matrix[c[1]][c[2]]) > 8000}

\* C20: whenever compute_correlation_matrix returns, matrix[i][j] equals
\* matrix[j][i] for all i and j, every matrix[i][i] is 1.0, and
\* highCorrelations holds exactly the pairs i < j with |matrix[i][j]| > 0.8,
\* each once and with its correlation, in descending order of magnitude.
C20_Correlation ==
    cpc = "returned" =>
        LET m == cout[1].matrix
            syms == cout[1].symbols
            high == cout[1].highCorrelations
        IN  /\ DOMAIN m = DOMAIN syms
            /\ \A i \in DOMAIN m : \A j \in DOMAIN m : m[i][j] = m[j][i]
            /\ \A i \in DOMAIN m : m[i][i] = 10000
            /\ \A c \in HighCells(m) :
                  \E k \in DOMAIN high :
                      /\ high[k].pair = syms[c[1]] \o "/" \o syms[c[2]]
                      /\ high[k].corr = m[c[1]][c[2]]
            /\ \A k \in DOMAIN high :
                  \E c \in HighCells(m) :
                      high[k].pair = syms[c[1]] \o "/" \o syms[c[2]]
            /\ Len(high) = Cardinality(HighCells(m))
            /\ \A k \in DOMAIN high : \A l \in DOMAIN high :
                  k < l => Abs(high[k].corr) >= Abs(high[l].corr)

\* three symbols: one pair at exactly 0.8 left out, two pairs listed in the
\* order the sort gave them, not the order the loop met them
C20_Witness ==
    /\ cpc = "returned"
    /\ Len(cout[1].symbols) = 3
    /\ cout[1].matrix[1][2] = 8000
    /\ Len(cout[1].highCorrelations) = 2
    /\ cout[1].highCorrelations[1].pair = "S2/S3"
    /\ cout[1].highCorrelations[2].corr < cout[1].highCorrelations[1].corr

----------------------------------------------------------------------------
(* Claims about build_holdings_from_manual                                 *)

\* The entries the function accepts for a symbol, in input order
EntriesOf(symbol) ==
    SelectSeq(arg, LAMBDA e : ManualRow(e) # None /\ Upper(Strip(e.symbol)) = symbol)

\* The cost per share an accepted entry states; a cost of 0 states none,
\* as in line 354
NoZero(x) == IF Truthy(x) THEN x ELSE None
StatedCost(e) == NoZero(ManualRow(e)[1].costBasisPerShare)

\* The share-weighted average of the stated costs, to the cent
WeightedAverageCost(es) ==
    LET stated == SelectSeq(es, LAMBDA e : StatedCost(e) # None)
        shares == SumSeq([i \in DOMAIN stated |-> stated[i].shares[1]])
        cost == SumSeq([i \in DOMAIN stated |->
                          StatedCost(stated[i])[1] * stated[i].shares[1]])
    IN  IF stated = << >> THEN None ELSE Some(RoundHalfEven(cost, shares))

----------------------------------------------------------------------------
(* Claims about fetch_portfolio_performance                                *)

\* C22: whenever the function returns a benchmarkValues series that is not
\* empty, the first benchmark value equals startValue to the cent, also
\* when the holdings' histories begin after SPY's.
C22_BenchmarkStart ==
    (callpc = "returned" /\ ret[1].dates # << >>) =>
        (ret[1].benchmarkValues # << >> =>
            ret[1].benchmarkValues[1] = ret[1].startValue)

\* C28: whenever the function returns a series that is not empty, endValue
\* is the sum of currentValue over the holdings of positive currentValue:
\* on the last date every holding is worth its currentValue, whether or not
\* its own history has that date.
C28_EndValue ==
    (callpc = "returned" /\ ret[1].dates # << >>) =>
        ret[1].endValue
            = SumSeq([i \in DOMAIN arg.holdings |->
                        IF OrZero(arg.holdings[i].currentValue) > 0
                        THEN arg.holdings[i].currentValue[1] ELSE 0])

\* a holding whose history stops before the last date, at a close other
\* than its first
C28_Witness ==
    /\ callpc = "returned"
    /\ ret[1].dates # << >>
    /\ \E i \in DOMAIN arg.holdings :
          LET hist == arg.fetched[arg.holdings[i].symbol]
          IN  /\ OrZero(arg.holdings[i].currentValue) > 0
              /\ hist # None
              /\ hist[1].dates[Len(hist[1].dates)] < ret[1].dates[Len(ret[1].dates)]
              /\ hist[1].closes[1] # hist[1].currentPrice

----------------------------------------------------------------------------
(* Claims about the cached per-entity fetchers                              *)

\* The fetch that follows fetch i for the same function and entity, 0 when
\* there is none
NextCallFor(i) ==
    LET later == {j \in (i + 1)..Len(calls) :
                     /\ calls[j].fn = calls[i].fn
                     /\ calls[j].symbol = calls[i].symbol}
    IN  IF later = {} THEN 0 ELSE CHOOSE j \in later : \A k \in later : j <= k

\* C24: a per-entity fetch that failed with a provider error (in
\* _enrich_one, _fetch_esg_data or _fetch_ticker_history) is not served from
\* the cache afterwards: the next fetch of the same entity calls the
\* provider again.
C24_FailedFetchNotCached ==
    \A i \in 1..Len(calls) :
        (calls[i].provider = "error" /\ NextCallFor(i) # 0)
            => calls[NextCallFor(i)].provider # "none"

\* C27: _fetch_ticker_history caches the outcome "no data" as None: the
\* next call for the same symbol and period that finds the entry within its
\* TTL returns None without calling the provider.
C27_NoDataCached ==
    \A i \in 1..Len(calls) :
        (/\ calls[i].fn = "history"
         /\ calls[i].provider = "nodata"
         /\ NextCallFor(i) # 0
         /\ calls[NextCallFor(i)].live)
            => (/\ calls[NextCallFor(i)].provider = "none"
                /\ calls[NextCallFor(i)].result = None)

----------------------------------------------------------------------------
(* Claims about the lines parse_portfolio_csv reads                         *)

IsBlank(l) == l.kind = "blank"

\* The index of the second of the first two consecutive blank lines that
\* follow a non-blank line; the length of the file when there are none
EndOfData(lines) ==
    LET ends == {i \in 2..Len(lines) :
                    /\ IsBlank(lines[i]) /\ IsBlank(lines[i - 1])
                    /\ \E j \in 1..(i - 2) : ~IsBlank(lines[j])}
    IN  IF ends = {} THEN Len(lines)
        ELSE CHOOSE i \in ends : \A k \in ends : i <= k

\* The symbols of the rows among lines[from..to] that give a holding
RowSymbols(lines, from, to) ==
    {CleanSymbol(lines[i].symbol) :
        i \in {k \in from..to : lines[k].kind = "row" /\ ParseRow(lines[k]) # None}}

FirstNonBlank(lines) ==
    CHOOSE i \in DOMAIN lines :
        ~IsBlank(lines[i]) /\ \A k \in 1..(i - 1) : IsBlank(lines[k])

\* C25: parse_portfolio_csv consumes the lines up to the first two
\* consecutive blank lines that follow a non-blank line and none beyond:
\* the holdings it returns are those of the rows between the header (the
\* first non-blank line, however many blank lines precede it) and that
\* point, a single blank line between two rows stopping nothing.
C25_BlankLineStop ==
    ppc = "returned" =>
        {pout[i].symbol : i \in DOMAIN pout}
            = RowSymbols(pfile, FirstNonBlank(pfile) + 1, EndOfData(pfile))

\* returned: a file with a blank line before the header, a single blank
\* line between two rows, and a row after two consecutive blank lines
C25_Witness ==
    /\ ppc = "returned"
    /\ IsBlank(pfile[1])
    /\ \E i \in 3..(Len(pfile) - 2) :
          /\ IsBlank(pfile[i])
          /\ pfile[i - 1].kind = "row" /\ pfile[i + 1].kind = "row"
          /\ i + 1 <= EndOfData(pfile)
    /\ RowSymbols(pfile, EndOfData(pfile) + 1, Len(pfile))
          \ RowSymbols(pfile, 1, EndOfData(pfile)) # {}

----------------------------------------------------------------------------
(* Claims about _normalize_columns                                          *)

CanonicalNames == {COLUMN_ALIASES[k] : k \in DOMAIN COLUMN_ALIASES}

\* C26: after _normalize_columns each canonical column name labels at most
\* one column, and it labels the first column in header order that maps to
\* it, whatever the header row: several aliases of one canonical column, or
\* an alias followed by the canonical spelling itself.
C26_OneColumnPerCanonical ==
    callpc = "returned" =>
        \A c \in CanonicalNames :
            LET mapping == {i \in DOMAIN arg : CanonicalOf(arg[i]) = Some(c)}
                labelled == {i \in DOMAIN arg : ret[1][i] = c}
            IN  /\ Cardinality(labelled) <= 1
                /\ mapping # {} =>
                     labelled = {CHOOSE i \in mapping : \A k \in mapping : i <= k}

----------------------------------------------------------------------------
(* Claims about the dividends block of analyze_portfolio                    *)

\* C29: in the dividends block analyze_portfolio returns, payingCount
\* never exceeds totalCount, whatever the enriched holdings: stocks and
\* funds, with or without a dividend yield.
C29_PayingWithinTotal ==
    aout # None => aout[1].dividends.payingCount <= aout[1].dividends.totalCount

----------------------------------------------------------------------------
(* Claims about the records enrich_holdings leaves in the holdings          *)

\* isFund, sectorWeights and the sector label of a record say the same
FundConsistent(enr) ==
    /\ enr.isFund <=> enr.sectorWeights # None
    /\ enr.isFund <=> enr.sector = "Fund/ETF"

\* C30: after enrich_holdings returns, every holding has every enrichment
\* field of the fallback record, and isFund is true if and only if
\* sectorWeights is not None, if and only if sector is "Fund/ETF", whether
\* its record was fetched, came from the cache or is the fallback.
C30_RecordsComplete ==
    pc = "returned" =>
        \A i \in DOMAIN holdings :
            /\ holdings[i].enr # None
            /\ DOMAIN holdings[i].enr[1] = DOMAIN ENRICHMENT_FALLBACK
            /\ FundConsistent(holdings[i].enr[1])

\* returned with a fund record served from the cache next to a fallback
C30_Witness ==
    /\ pc = "returned"
    /\ \E i, j \in DOMAIN holdings :
          /\ futures[holdings[i].symbol].prov = "cached"
          /\ holdings[i].enr[1].isFund
          /\ futures[holdings[j].symbol].prov = "error"
          /\ holdings[j].enr = Some(ENRICHMENT_FALLBACK)

\* returned with a record fetched for a fund and one fetched for a stock
C30_WitnessFresh ==
    /\ pc = "returned"
    /\ \E i, j \in DOMAIN holdings :
          /\ futures[holdings[i].symbol].prov = "fund"
          /\ holdings[i].enr[1].isFund
          /\ futures[holdings[j].symbol].prov = "stock"
          /\ ~holdings[j].enr[1].isFund

----------------------------------------------------------------------------
(* Claims about the holdings handed to the analysis and to the widgets      *)

\* new holds the elements of old in descending order of currentValue, those
\* of equal value in the order they had in old
StableDescending(new, old) ==
    /\ Len(new) = Len(old)
    /\ \E perm \in [DOMAIN new -> DOMAIN old] :
          /\ \A i, j \in DOMAIN new : perm[i] = perm[j] => i = j
          /\ \A i \in DOMAIN new : new[i] = old[perm[i]]
          /\ \A i, j \in DOMAIN new :
                i < j => \/ new[i].currentValue > new[j].currentValue
                         \/ /\ new[i].currentValue = new[j].currentValue
                            /\ perm[i] < perm[j]

\* C23: analyze_portfolio and the widget functions (fetch_holdings_news,
\* fetch_peer_valuations, fetch_portfolio_performance,
\* compute_correlation_matrix, fetch_ethical_analysis) add, remove and
\* modify no field of a holding they are handed; analyze_portfolio reorders
\* the list by currentValue descending, holdings of equal value keeping
\* their order, and the widget functions leave the order alone.
C23_HoldingsUntouched ==
    [][/\ nholdings' = nholdings
       /\ cholds' = cholds
       /\ arg' = arg
       /\ \/ aholdings' = aholdings
          \/ StableDescending(aholdings', aholdings)]_vars

\* analyze_portfolio has sorted a list that was not in order and holds two
\* holdings of equal value (the symbols number the holdings as handed over)
C23_Witness ==
    /\ apc \notin {"off", "ready"}
    /\ \E i, j \in DOMAIN aholdings :
          /\ i < j
          /\ aholdings[i].currentValue = aholdings[j].currentValue
          /\ aholdings[i].symbol = "S1" /\ aholdings[j].symbol = "S3"
    /\ aholdings[1].symbol = "S2"

====
